---- MODULE Spec2Model ----
(***************************************************************************)
(* The execution service of astriaorg/flame (grpc/execution/server.go):    *)
(* GetGenesisInfo, GetBlock, BatchGetBlocks, ExecuteBlock,                 *)
(* GetCommitmentState and UpdateCommitmentState over the block chain, the  *)
(* transaction pool and the shared service container.                      *)
(*                                                                         *)
(* Every handler is one action.  The collaborators whose code is not part  *)
(* of the sources at hand (core.BlockChain, the miner, the shared service  *)
(* container, the static request validation) are modelled from the         *)
(* specification's description of their interface.  Metric counters, logs  *)
(* and timers are left out: no handler reads them.                         *)
(***************************************************************************)
EXTENDS Integers, Sequences, FiniteSets, TLC

VARIABLES
    bc,                        \* core.BlockChain: store, head/safe/final, canonical index
    astriaOrdered,             \* TxPool: the sequencer-ordered transaction list
    nextFeeRecipient,          \* shared container: fee recipient of the next block
    auctioneerAddress,         \* shared container: auctioneer address
    genesisInfoCalled,         \* shared container: handshake flag
    getCommitmentStateCalled,  \* shared container: handshake flag
    synced,                    \* eth.Ethereum: set by SetSynced
    last,                      \* the call just served (procedure, request, status,
                               \* response), until the conductor takes the response
    builtSinceUpdate,          \* hashes returned by OK ExecuteBlocks since the last
                               \* UpdateCommitmentState call (history)
    lastBuilt,                 \* request and returned hash of the latest of them (history)
    calls,                     \* the calls in progress, one slot per concurrent caller
    blockExecutionLock,        \* holder of the mutex of ExecuteBlock
    commitmentUpdateLock,      \* holder of the mutex of UpdateCommitmentState
    previous,                  \* the call served before the last one, where the
                               \* conductor keeps it (history)
    ms                         \* MockBidirectionalStreaming: requestStream,
                               \* accumulatedResponses, requestCounter

vars == <<bc, astriaOrdered, nextFeeRecipient, auctioneerAddress, genesisInfoCalled,
          getCommitmentStateCalled, synced, last, builtSinceUpdate, lastBuilt,
          calls, blockExecutionLock, commitmentUpdateLock, previous, ms>>

(***************************************************************************)
(* Bounds of the model.                                                    *)
(***************************************************************************)
InitBlocks == 1     \* blocks generated and inserted before the service starts
MaxInserted == 2    \* blocks ExecuteBlock may add to the store
MaxCelestia == 2    \* requested base celestia heights range over 0..MaxCelestia
MaxTxs == 1         \* RollupData items per ExecuteBlock request
MaxBatch == 1       \* identifiers per BatchGetBlocks request
MaxConcurrent == 2  \* calls that may be in progress at the same time

(***************************************************************************)
(* Byte strings and hashes.  A 32-byte hash is the tuple of the header     *)
(* fields it digests (the digest is taken to be collision free) or the     *)
(* all-zero hash; ShortBytes is a byte string that is not 32 bytes long.   *)
(***************************************************************************)
ZeroHash == <<>>
ShortBytes == <<0>>
UnknownHash == <<-1, ZeroHash, 0, "", <<>>, "nil">>
NoBeaconRoot == "nil"

Is32Bytes(b) == b # ShortBytes

Hash(b) == <<b.number, b.parentHash, b.time, b.coinbase, b.txs, b.beaconRoot>>

(***************************************************************************)
(* Chain configuration (read from genesis, never re-read).                 *)
(***************************************************************************)
Config ==
    [ AstriaRollupName |-> "test",
      AstriaSequencerInitialHeight |-> 10,
      AstriaCelestiaInitialHeight |-> 1,
      AstriaCelestiaHeightVariance |-> 10,
      AstriaSequencerAddressPrefix |-> "astria",
      CancunTime |-> 2 ]

AstriaFeeCollectors == (0 :> "feeA") @@ (3 :> "feeB")

AstriaAuctioneerAddresses ==
    (3 :> [bech32m |-> "auct3", prefix |-> "astria", checksumOk |-> TRUE]) @@
    (4 :> [bech32m |-> "auct4", prefix |-> "other", checksumOk |-> TRUE])

NoAuctioneer == [bech32m |-> "", prefix |-> "", checksumOk |-> FALSE]

BridgeAddresses == {"bridge1"}
BridgeAllowedAssets == {"asset1"}

IsCancun(height, timestamp) == timestamp >= Config.CancunTime

(***************************************************************************)
(* core.BlockChain (ChainStore).  A block is the record of its header      *)
(* fields; the store c has the block set, the three head pointers (as      *)
(* hashes), the persisted base celestia height and the canonical index     *)
(* (canonical[n + 1] is the hash of the canonical block of height n).      *)
(***************************************************************************)
GenesisBlock ==
    [number |-> 0, parentHash |-> ZeroHash, time |-> 0, coinbase |-> "",
     txs |-> <<>>, beaconRoot |-> NoBeaconRoot]

HasBlock(c, h) == \E b \in c.blocks : Hash(b) = h

GetBlockByHash(c, h) == CHOOSE b \in c.blocks : Hash(b) = h

CurrentBlock(c) == GetBlockByHash(c, c.currentBlock)

CurrentSafeBlock(c) == GetBlockByHash(c, c.currentSafeBlock)

CurrentFinalBlock(c) == GetBlockByHash(c, c.currentFinalBlock)

CurrentBaseCelestiaHeight(c) == c.baseCelestiaHeight

GetCanonicalHash(c, n) ==
    IF n + 1 \in DOMAIN c.canonical THEN c.canonical[n + 1] ELSE ZeroHash

RECURSIVE ChainTo(_, _)
ChainTo(c, b) ==
    IF b.number = 0 \/ ~HasBlock(c, b.parentHash)
    THEN <<Hash(b)>>
    ELSE Append(ChainTo(c, GetBlockByHash(c, b.parentHash)), Hash(b))

\* SetCanonical makes b the head and the canonical index the chain ending in b.
SetCanonical(c, b) ==
    [c EXCEPT !.currentBlock = Hash(b), !.canonical = ChainTo(c, b)]

SetSafe(c, header) == [c EXCEPT !.currentSafeBlock = Hash(header)]

\* Sets the final pointer and persists the base celestia height with it.
SetCelestiaFinalized(c, header, celHeight) ==
    [c EXCEPT !.currentFinalBlock = Hash(header), !.baseCelestiaHeight = celHeight]

\* Writes the block to the store; head and canonical index stay as they are.
InsertBlockWithoutSetHead(c, block) == [c EXCEPT !.blocks = @ \cup {block}]

\* InsertChain of the pre-generated blocks: each one becomes the head.
InsertChainBlock(c, block) == SetCanonical(InsertBlockWithoutSetHead(c, block), block)

(***************************************************************************)
(* The state after construction (SetupSharedService): the genesis block    *)
(* and InitBlocks generated blocks are in the store, the last of them is   *)
(* head, safe and final block, and no procedure has been called.           *)
(***************************************************************************)
InitialFeeRecipient == AstriaFeeCollectors[0]

GeneratedBlock(parent) ==
    [number |-> parent.number + 1, parentHash |-> Hash(parent), time |-> 0,
     coinbase |-> InitialFeeRecipient, txs |-> <<>>, beaconRoot |-> NoBeaconRoot]

RECURSIVE GeneratedChain(_)
GeneratedChain(n) ==
    IF n = 0
    THEN [blocks |-> {GenesisBlock},
          currentBlock |-> Hash(GenesisBlock),
          currentSafeBlock |-> Hash(GenesisBlock),
          currentFinalBlock |-> Hash(GenesisBlock),
          baseCelestiaHeight |-> Config.AstriaCelestiaInitialHeight,
          canonical |-> <<Hash(GenesisBlock)>>]
    ELSE LET c == GeneratedChain(n - 1)
             b == GeneratedBlock(CurrentBlock(c))
         IN  SetCelestiaFinalized(SetSafe(InsertChainBlock(c, b), b), b,
                                  c.baseCelestiaHeight)

NoRequest == <<>>
NoResponse == <<>>
NoBuilt == [req |-> NoRequest, hash |-> ZeroHash]
NoCall == [op |-> "none", req |-> NoRequest, status |-> "none", res |-> NoResponse]

\* The concurrent callers, the unlocked mutex, and the slot of a caller that
\* has no call in progress.
Procs == 1..MaxConcurrent
NoHolder == 0
NotInFlight ==
    [op |-> "none", req |-> NoRequest, pc |-> "idle", status |-> "none",
     res |-> NoResponse, height |-> 0, currentHead |-> ZeroHash, block |-> GenesisBlock,
     softBlock |-> NoResponse, firmBlock |-> NoResponse, celestiaBlock |-> 0]

\* A mock stream over the given requests, as the tests construct it.
MockBidirectionalStreaming(requestStream) ==
    [requestStream |-> requestStream, accumulatedResponses |-> <<>>, requestCounter |-> 0]

\* No call is in progress and both mutexes are unlocked; no call is
\* remembered and the mock stream is empty.
NoneInFlight ==
    /\ calls = [p \in Procs |-> NotInFlight]
    /\ blockExecutionLock = NoHolder
    /\ commitmentUpdateLock = NoHolder
    /\ previous = NoCall
    /\ ms = MockBidirectionalStreaming(<<>>)

Init ==
    /\ bc = GeneratedChain(InitBlocks)
    /\ astriaOrdered = <<>>
    /\ nextFeeRecipient = InitialFeeRecipient
    /\ auctioneerAddress = NoAuctioneer
    /\ genesisInfoCalled = FALSE
    /\ getCommitmentStateCalled = FALSE
    /\ synced = FALSE
    /\ last = NoCall
    /\ builtSinceUpdate = {}
    /\ lastBuilt = NoBuilt
    /\ NoneInFlight

\* What a call leaves behind for the caller: its status and its response.
\* A call served in one step leaves no call in progress and the mutexes as
\* they were.
Reply(op, req, status, res) ==
    /\ last' = [op |-> op, req |-> req, status |-> status, res |-> res]
    /\ UNCHANGED <<calls, blockExecutionLock, commitmentUpdateLock, previous, ms>>

\* The conductor calls one procedure at a time: it takes the response of a
\* call before it makes the next one.
Idle == last = NoCall

Return ==
    /\ ~Idle
    /\ last' = NoCall
    /\ UNCHANGED <<bc, astriaOrdered, nextFeeRecipient, auctioneerAddress,
                   genesisInfoCalled, getCommitmentStateCalled, synced, builtSinceUpdate,
                   lastBuilt, calls, blockExecutionLock, commitmentUpdateLock,
                   previous, ms>>

(***************************************************************************)
(* Shared service container.                                               *)
(***************************************************************************)
SyncMethodsCalled == genesisInfoCalled /\ getCommitmentStateCalled

ValidateBech32mAddress(address, prefix) ==
    address.checksumOk /\ address.prefix = prefix

\* Faulty variant: a deposit is taken whatever its bridge address and asset.
UnbundleItemUnchecked(item) ==
    IF item.kind = "seq"
    THEN <<[kind |-> "user", id |-> item.data, executable |-> item.executable]>>
    ELSE <<[kind |-> "deposit", id |-> item.data, executable |-> TRUE]>>

\* A RollupData item is SequencedData (a marshalled transaction) or a Deposit.
\* A deposit is skipped unless its bridge address and asset are configured.
UnbundleItem(item) ==
    IF item.kind = "seq"
    THEN <<[kind |-> "user", id |-> item.data, executable |-> item.executable]>>
    ELSE IF item.bridge \in BridgeAddresses /\ item.asset \in BridgeAllowedAssets
         THEN <<[kind |-> "deposit", id |-> item.data, executable |-> TRUE]>>
         ELSE <<>>

RECURSIVE UnbundleRollupDataTransactions(_, _, _)
UnbundleRollupDataTransactions(txs, height, prevBlockHash) ==
    IF txs = <<>>
    THEN <<>>
    ELSE UnbundleItem(Head(txs))
         \o UnbundleRollupDataTransactions(Tail(txs), height, prevBlockHash)

(***************************************************************************)
(* Miner: BuildPayload builds the block on args.Parent from the ordered    *)
(* list of the transaction pool, dropping what does not execute.           *)
(***************************************************************************)
RECURSIVE Executed(_)
Executed(txs) ==
    IF txs = <<>>
    THEN <<>>
    ELSE (IF Head(txs).executable THEN <<Head(txs).id>> ELSE <<>>) \o Executed(Tail(txs))

BuildPayload(c, args, ordered) ==
    [number |-> GetBlockByHash(c, args.Parent).number + 1,
     parentHash |-> args.Parent,
     time |-> args.Timestamp,
     coinbase |-> args.FeeRecipient,
     txs |-> Executed(ordered),
     beaconRoot |-> args.BeaconRoot]

(***************************************************************************)
(* Wire forms.                                                             *)
(***************************************************************************)
\* uint32(n), computed on 16-bit halves (TLC's integers are 32 bits wide).
U32(n) == (((n \div (2 ^ 16)) % (2 ^ 16)) * (2 ^ 16)) + (n % (2 ^ 16))

\* Faulty variant: the parent's hash is written into the hash field.
EthHeaderToExecutionBlockParentAsHash(header) ==
    [number |-> U32(header.number),
     hash |-> header.parentHash,
     parentBlockHash |-> header.parentHash,
     timestamp |-> header.time]

\* ethHeaderToExecutionBlock
EthHeaderToExecutionBlock(header) ==
    [number |-> U32(header.number),
     hash |-> Hash(header),
     parentBlockHash |-> header.parentHash,
     timestamp |-> header.time]

service == <<bc, astriaOrdered, nextFeeRecipient, auctioneerAddress,
             genesisInfoCalled, getCommitmentStateCalled, synced>>

(***************************************************************************)
(* ExecuteBlock                                                            *)
(***************************************************************************)
StoreLimit == InitBlocks + 1 + MaxInserted

\* What may go wrong in the engine: the payload build, the conversion of the
\* payload to a block, the insertion of the block.
ExecFaults == {"none", "build", "convert", "insert"}

ValidateStaticExecuteBlockRequest(req) ==
    Is32Bytes(req.prevBlockHash) /\ req.timestamp > 0

\* The handshake check of ExecuteBlock.
\* Faulty variant: the check is left out.
ExecHandshakeSkipped == FALSE

ExecHandshakeMissing == ~SyncMethodsCalled

\* Faulty variant: any stored block is taken as a parent.
ExecParentUnknown(c, prevHeadHash) == ~HasBlock(c, prevHeadHash)

\* The block can only be created on top of the soft block.
ExecParentMismatch(c, prevHeadHash) == prevHeadHash # Hash(CurrentSafeBlock(c))

\* The height that this block will be at.
ExecHeight(c) == CurrentBlock(c).number + 1

ExecCancunHashMissing(req, height) ==
    IsCancun(height, req.timestamp) /\ req.sequencerBlockHash = NoBeaconRoot

ExecSequencerHashRef(req, height) ==
    IF IsCancun(height, req.timestamp) THEN req.sequencerBlockHash ELSE NoBeaconRoot

ExecPayloadAttributes(req, prevHeadHash, feeRecipient, sequencerHashRef) ==
    [Parent |-> prevHeadHash,
     Timestamp |-> req.timestamp,
     Random |-> ZeroHash,
     FeeRecipient |-> feeRecipient,
     OverrideTransactions |-> <<>>,
     IsOptimisticExecution |-> FALSE,
     BeaconRoot |-> sequencerHashRef]

\* Faulty variant: nothing is staged for the payload builder.
ExecStageNothing(txsToProcess) == <<>>

\* Faulty variant: a list left behind by an earlier call is not replaced.
ExecStageKeepLeftover(txsToProcess) ==
    IF astriaOrdered # <<>> THEN astriaOrdered ELSE txsToProcess

\* s.eth().TxPool().SetAstriaOrdered(txsToProcess)
ExecStageOrdered(txsToProcess) == txsToProcess

\* Faulty variant: the block is inserted as the new head.
ExecInsertSetHead(c, block) == InsertChainBlock(c, block)

\* s.bc().InsertBlockWithoutSetHead(block)
ExecInsert(c, block) == InsertBlockWithoutSetHead(c, block)

\* Faulty variant: the ordered list is not cleared.
ExecKeepOrdered(ordered) == ordered

\* s.eth().TxPool().ClearAstriaOrdered()
ExecClearOrdered(ordered) == <<>>

\* Faulty variant: the block's own hash is given as its parent's.
ExecResponseOwnHashAsParent(block) ==
    [number |-> U32(block.number),
     hash |-> Hash(block),
     parentBlockHash |-> Hash(block),
     timestamp |-> block.time]

\* The Block ExecuteBlock answers with.
ExecResponse(block) ==
    [number |-> U32(block.number),
     hash |-> Hash(block),
     parentBlockHash |-> block.parentHash,
     timestamp |-> block.time]

\* Faulty variant: the entry of the block's own height is taken.
ExecNextFeeRecipientOwnHeight(current, resNumber) ==
    IF resNumber \in DOMAIN AstriaFeeCollectors
    THEN AstriaFeeCollectors[resNumber]
    ELSE current

ExecNextFeeRecipient(current, resNumber) ==
    IF resNumber + 1 \in DOMAIN AstriaFeeCollectors
    THEN AstriaFeeCollectors[resNumber + 1]
    ELSE current

\* The address is stored also when its validation fails: the failure is only logged.
ExecAuctioneerAddress(current, resNumber) ==
    IF resNumber + 1 \in DOMAIN AstriaAuctioneerAddresses
    THEN AstriaAuctioneerAddresses[resNumber + 1]
    ELSE current

ExecuteBlock(req) ==
    LET prevHeadHash == req.prevBlockHash
        height == ExecHeight(bc)
        sequencerHashRef == ExecSequencerHashRef(req, height)
        txsToProcess ==
            UnbundleRollupDataTransactions(req.transactions, height, prevHeadHash)
        payloadAttributes ==
            ExecPayloadAttributes(req, prevHeadHash, nextFeeRecipient, sequencerHashRef)
        staged == ExecStageOrdered(txsToProcess)
        block == BuildPayload(bc, payloadAttributes, staged)
        res == ExecResponse(block)
        Fail(status) == Reply("ExecuteBlock", req, status, NoResponse)
    IN
    IF ~ValidateStaticExecuteBlockRequest(req)
    THEN Fail("InvalidArgument") /\ UNCHANGED <<service, builtSinceUpdate, lastBuilt>>
    ELSE IF ExecHandshakeMissing
    THEN Fail("PermissionDenied") /\ UNCHANGED <<service, builtSinceUpdate, lastBuilt>>
    ELSE IF ExecParentMismatch(bc, prevHeadHash)
    THEN Fail("FailedPrecondition") /\ UNCHANGED <<service, builtSinceUpdate, lastBuilt>>
    ELSE IF ExecCancunHashMissing(req, height)
    THEN Fail("InvalidArgument") /\ UNCHANGED <<service, builtSinceUpdate, lastBuilt>>
    ELSE \E fault \in ExecFaults :
         IF fault # "none"
         THEN \* BuildPayload, ExecutableDataToBlock or InsertBlockWithoutSetHead fails
              /\ astriaOrdered' = staged
              /\ Fail(IF fault = "build" THEN "InvalidArgument" ELSE "Internal")
              /\ UNCHANGED <<bc, nextFeeRecipient, auctioneerAddress, genesisInfoCalled,
                             getCommitmentStateCalled, synced, builtSinceUpdate, lastBuilt>>
         ELSE /\ block \in bc.blocks \/ Cardinality(bc.blocks) < StoreLimit
              /\ bc' = ExecInsert(bc, block)
              /\ astriaOrdered' = ExecClearOrdered(staged)
              /\ nextFeeRecipient' = ExecNextFeeRecipient(nextFeeRecipient, res.number)
              /\ auctioneerAddress' = ExecAuctioneerAddress(auctioneerAddress, res.number)
              /\ Reply("ExecuteBlock", req, "OK", res)
              /\ builtSinceUpdate' = builtSinceUpdate \cup {res.hash}
              /\ lastBuilt' = [req |-> req, hash |-> res.hash]
              /\ UNCHANGED <<genesisInfoCalled, getCommitmentStateCalled, synced>>

(***************************************************************************)
(* GetGenesisInfo, GetCommitmentState                                      *)
(***************************************************************************)
SHA256(name) == <<"sha256", name>>

\* Faulty variant: the celestia initial height is given as the sequencer's.
GenesisInfoCelestiaInitial ==
    [rollupId |-> SHA256(Config.AstriaRollupName),
     sequencerGenesisBlockHeight |-> Config.AstriaCelestiaInitialHeight,
     celestiaBlockVariance |-> Config.AstriaCelestiaHeightVariance]

GenesisInfo ==
    [rollupId |-> SHA256(Config.AstriaRollupName),
     sequencerGenesisBlockHeight |-> Config.AstriaSequencerInitialHeight,
     celestiaBlockVariance |-> Config.AstriaCelestiaHeightVariance]

\* Faulty variant: the call flips the flag instead of setting it.
GetGenesisInfoFlipsFlag ==
    /\ genesisInfoCalled' = ~genesisInfoCalled
    /\ Reply("GetGenesisInfo", NoRequest, "OK", GenesisInfo)
    /\ UNCHANGED <<bc, astriaOrdered, nextFeeRecipient, auctioneerAddress,
                   getCommitmentStateCalled, synced, builtSinceUpdate, lastBuilt>>

GetGenesisInfo ==
    /\ genesisInfoCalled' = TRUE
    /\ Reply("GetGenesisInfo", NoRequest, "OK", GenesisInfo)
    /\ UNCHANGED <<bc, astriaOrdered, nextFeeRecipient, auctioneerAddress,
                   getCommitmentStateCalled, synced, builtSinceUpdate, lastBuilt>>

\* Faulty variant: the soft and the firm block are exchanged.
CommitmentStateSwapped(c) ==
    [soft |-> EthHeaderToExecutionBlock(CurrentFinalBlock(c)),
     firm |-> EthHeaderToExecutionBlock(CurrentSafeBlock(c)),
     baseCelestiaHeight |-> CurrentBaseCelestiaHeight(c)]

CommitmentStateOf(c) ==
    [soft |-> EthHeaderToExecutionBlock(CurrentSafeBlock(c)),
     firm |-> EthHeaderToExecutionBlock(CurrentFinalBlock(c)),
     baseCelestiaHeight |-> CurrentBaseCelestiaHeight(c)]

GetCommitmentState ==
    IF ~HasBlock(bc, bc.currentSafeBlock) \/ ~HasBlock(bc, bc.currentFinalBlock)
    THEN /\ Reply("GetCommitmentState", NoRequest, "Internal", NoResponse)
         /\ UNCHANGED <<service, builtSinceUpdate, lastBuilt>>
    ELSE /\ getCommitmentStateCalled' = TRUE
         /\ Reply("GetCommitmentState", NoRequest, "OK", CommitmentStateOf(bc))
         /\ UNCHANGED <<bc, astriaOrdered, nextFeeRecipient, auctioneerAddress,
                        genesisInfoCalled, synced, builtSinceUpdate, lastBuilt>>

(***************************************************************************)
(* GetBlock, BatchGetBlocks                                                *)
(***************************************************************************)
\* An identifier is by number, by hash, or has no kind set ("unset");
\* "nil" is a request without identifier.
GetHeaderByNumber(c, n) == GetCanonicalHash(c, n)

\* Faulty variant: an absent header is reported as an invalid argument.
GetBlockFromIdentifierAbsentInvalid(c, identifier) ==
    LET h == IF identifier.kind = "number"
             THEN GetHeaderByNumber(c, identifier.number)
             ELSE identifier.hash
    IN  IF identifier.kind \notin {"number", "hash"} \/ ~HasBlock(c, h)
        THEN [status |-> "InvalidArgument", block |-> NoResponse]
        ELSE [status |-> "OK", block |-> EthHeaderToExecutionBlock(GetBlockByHash(c, h))]

\* The status and the block getBlockFromIdentifier answers with.
GetBlockFromIdentifier(c, identifier) ==
    LET h == IF identifier.kind = "number"
             THEN GetHeaderByNumber(c, identifier.number)
             ELSE identifier.hash
    IN  IF identifier.kind \notin {"number", "hash"}
        THEN [status |-> "InvalidArgument", block |-> NoResponse]
        ELSE IF ~HasBlock(c, h)
        THEN [status |-> "NotFound", block |-> NoResponse]
        ELSE [status |-> "OK", block |-> EthHeaderToExecutionBlock(GetBlockByHash(c, h))]

GetBlock(req) ==
    LET r == GetBlockFromIdentifier(bc, req)
    IN  /\ IF req.kind = "nil"
           THEN Reply("GetBlock", req, "InvalidArgument", NoResponse)
           ELSE Reply("GetBlock", req, r.status, r.block)
        /\ UNCHANGED <<service, builtSinceUpdate, lastBuilt>>

RECURSIVE BatchLoopSkipMissing(_, _, _, _)
RECURSIVE BatchLoop(_, _, _, _)
\* Faulty variant: an identifier that does not resolve is skipped.
BatchLoopSkipMissing(c, ids, i, blocks) ==
    IF i > Len(ids)
    THEN [status |-> "OK", blocks |-> blocks]
    ELSE LET r == GetBlockFromIdentifier(c, ids[i])
         IN  IF r.status # "OK"
             THEN BatchLoopSkipMissing(c, ids, i + 1, blocks)
             ELSE BatchLoopSkipMissing(c, ids, i + 1, Append(blocks, r.block))

\* The loop of BatchGetBlocks from identifier i on, blocks being the blocks found so far.
BatchLoop(c, ids, i, blocks) ==
    IF i > Len(ids)
    THEN [status |-> "OK", blocks |-> blocks]
    ELSE LET r == GetBlockFromIdentifier(c, ids[i])
         IN  IF r.status # "OK"
             THEN [status |-> r.status, blocks |-> NoResponse]
             ELSE BatchLoop(c, ids, i + 1, Append(blocks, r.block))

BatchGetBlocks(ids) ==
    LET r == BatchLoop(bc, ids, 1, <<>>)
    IN  /\ IF Len(ids) = 0
           THEN Reply("BatchGetBlocks", ids, "InvalidArgument", NoResponse)
           ELSE Reply("BatchGetBlocks", ids, r.status, r.blocks)
        /\ UNCHANGED <<service, builtSinceUpdate, lastBuilt>>

(***************************************************************************)
(* UpdateCommitmentState                                                   *)
(***************************************************************************)
ValidateStaticCommitmentState(cs) ==
    Is32Bytes(cs.soft.hash) /\ Is32Bytes(cs.firm.hash)

\* The handshake check of UpdateCommitmentState.
\* Faulty variant: the check is left out.
UpdHandshakeSkipped == FALSE

UpdHandshakeMissing == ~SyncMethodsCalled

\* Faulty variant: an equal height is rejected too.
UpdBaseHeightNotIncreased(c, cs) ==
    CurrentBaseCelestiaHeight(c) >= cs.baseCelestiaHeight

UpdBaseHeightDecreased(c, cs) ==
    CurrentBaseCelestiaHeight(c) > cs.baseCelestiaHeight

\* The soft and the firm block must exist before going further.
UpdBlockMissing(c, softEthHash, firmEthHash) ==
    ~HasBlock(c, softEthHash) \/ ~HasBlock(c, firmEthHash)

\* Faulty variant: a missing block is reported as not found.
UpdBlockMissingNotFound == "NotFound"

UpdBlockMissingStatus == "InvalidArgument"

\* Faulty variant: the canonical chain is not moved to the soft block.
UpdCanonicalKept(c, currentHead, softBlock) == c

\* Update the canonical chain to the soft block.
UpdCanonicalToSoft(c, currentHead, softBlock) ==
    IF currentHead # Hash(softBlock) THEN SetCanonical(c, softBlock) ELSE c

\* Faulty variant: the firm block is not checked against the canonical chain.
UpdFirmUnchecked(c, firmBlock, firmEthHash) == FALSE

\* Once the head is updated: does the firm block belong to the canonical chain?
UpdFirmNotCanonical(c, firmBlock, firmEthHash) ==
    GetCanonicalHash(c, firmBlock.number) # firmEthHash

\* Faulty variant: the canonical chain is left at the requested soft block.
UpdNoRollback(c, rollbackBlock) == c

UpdRollback(c, rollbackBlock) == SetCanonical(c, rollbackBlock)

\* Faulty variant: the safe pointer is not written.
UpdSafeSkipped(c, softBlock, softEthHash) == c

UpdSafe(c, softBlock, softEthHash) ==
    IF Hash(CurrentSafeBlock(c)) # softEthHash THEN SetSafe(c, softBlock) ELSE c

UpdFinal(c, firmBlock, firmEthHash, celHeight) ==
    IF Hash(CurrentFinalBlock(c)) # firmEthHash
    THEN SetCelestiaFinalized(c, firmBlock, celHeight)
    ELSE c

UpdateCommitmentState(cs) ==
    LET softEthHash == cs.soft.hash
        firmEthHash == cs.firm.hash
        softBlock == GetBlockByHash(bc, softEthHash)
        firmBlock == GetBlockByHash(bc, firmEthHash)
        currentHead == Hash(CurrentBlock(bc))
        moved == UpdCanonicalToSoft(bc, currentHead, softBlock)
        rollbackBlock == GetBlockByHash(moved, currentHead)
        Fail(status) == Reply("UpdateCommitmentState", cs, status, NoResponse)
    IN
    /\ builtSinceUpdate' = {}
    /\ lastBuilt' = NoBuilt
    /\ IF ~ValidateStaticCommitmentState(cs)
       THEN Fail("InvalidArgument") /\ UNCHANGED service
       ELSE IF UpdHandshakeMissing
       THEN Fail("PermissionDenied") /\ UNCHANGED service
       ELSE IF UpdBaseHeightDecreased(bc, cs)
       THEN Fail("InvalidArgument") /\ UNCHANGED service
       ELSE IF UpdBlockMissing(bc, softEthHash, firmEthHash)
       THEN Fail(UpdBlockMissingStatus) /\ UNCHANGED service
       ELSE \/ \* SetCanonical(softBlock) fails
               /\ currentHead # softEthHash
               /\ Fail("Internal")
               /\ UNCHANGED service
            \/ IF UpdFirmNotCanonical(moved, firmBlock, firmEthHash)
               THEN /\ bc' = UpdRollback(moved, rollbackBlock)
                    /\ Fail("InvalidArgument")
                    /\ UNCHANGED <<astriaOrdered, nextFeeRecipient, auctioneerAddress,
                                   genesisInfoCalled, getCommitmentStateCalled, synced>>
               ELSE /\ synced' = TRUE
                    /\ bc' = UpdFinal(UpdSafe(moved, softBlock, softEthHash), firmBlock,
                                      firmEthHash, cs.baseCelestiaHeight)
                    /\ Reply("UpdateCommitmentState", cs, "OK", cs)
                    /\ UNCHANGED <<astriaOrdered, nextFeeRecipient, auctioneerAddress,
                                   genesisInfoCalled, getCommitmentStateCalled>>

(***************************************************************************)
(* The calls the conductor may make.  The procedures are the same in every *)
(* specification below; the specifications differ in the requests they     *)
(* draw.                                                                   *)
(***************************************************************************)
KnownHashes == {Hash(b) : b \in bc.blocks}

HashInputs == KnownHashes \cup {UnknownHash, ShortBytes}

SeqsUpTo(S, n) == UNION {[1..k -> S] : k \in 0..n}

ExecuteBlockRequest(prev, ts, txs, seqHash) ==
    [prevBlockHash |-> prev, timestamp |-> ts, transactions |-> txs,
     sequencerBlockHash |-> seqHash]

CommitmentState(softHash, firmHash, celHeight) ==
    [soft |-> [hash |-> softHash], firm |-> [hash |-> firmHash],
     baseCelestiaHeight |-> celHeight]

ByNumber(n) == [kind |-> "number", number |-> n, hash |-> ZeroHash]
ByHash(h) == [kind |-> "hash", number |-> 0, hash |-> h]
UnsetIdentifier == [kind |-> "unset", number |-> 0, hash |-> ZeroHash]
NilIdentifier == [kind |-> "nil", number |-> 0, hash |-> ZeroHash]

(***************************************************************************)
(* Spec: the commitment protocol.  Blocks are built on any parent hash     *)
(* (known, unknown, malformed) with an empty transaction list, and the     *)
(* commitment state is updated to any pair of hashes and any base celestia *)
(* height.                                                                 *)
(***************************************************************************)
ExecuteBlockRequests ==
    {ExecuteBlockRequest(prev, ts, <<>>, NoBeaconRoot) : prev \in HashInputs, ts \in 0..1}

CommitmentStates ==
    {CommitmentState(soft, firm, h) :
        soft \in HashInputs, firm \in HashInputs, h \in 0..MaxCelestia}

BlockIdentifiers ==
    {ByNumber(n) : n \in 0..StoreLimit} \cup {ByHash(h) : h \in KnownHashes}
    \cup {ByHash(UnknownHash), UnsetIdentifier, NilIdentifier}

Batches == SeqsUpTo({ByNumber(0), ByNumber(StoreLimit)}, MaxBatch)

Next ==
    \/ Idle /\ GetGenesisInfo
    \/ Idle /\ GetCommitmentState
    \/ Idle /\ \E req \in BlockIdentifiers : GetBlock(req)
    \/ Idle /\ \E ids \in Batches : BatchGetBlocks(ids)
    \/ Idle /\ \E req \in ExecuteBlockRequests : ExecuteBlock(req)
    \/ Idle /\ \E cs \in CommitmentStates : UpdateCommitmentState(cs)
    \/ Return

Spec == Init /\ [][Next]_vars

(***************************************************************************)
(* SpecTx: the transaction pipeline.  After the handshake, blocks are      *)
(* built on the soft block (or on an unknown parent) from every list of    *)
(* up to MaxTxs RollupData items: an executable and a non-executable       *)
(* transaction, a deposit through the configured bridge and a deposit      *)
(* through an unknown one.                                                 *)
(***************************************************************************)
RollupDataItems ==
    { [kind |-> "seq", data |-> "tx1", executable |-> TRUE, bridge |-> "", asset |-> ""],
      [kind |-> "seq", data |-> "tx2", executable |-> FALSE, bridge |-> "", asset |-> ""],
      [kind |-> "dep", data |-> "dep1", executable |-> TRUE,
       bridge |-> "bridge1", asset |-> "asset1"],
      [kind |-> "dep", data |-> "dep2", executable |-> TRUE,
       bridge |-> "bridge2", asset |-> "asset1"] }

TxExecuteBlockRequests ==
    {ExecuteBlockRequest(prev, ts, txs, NoBeaconRoot) :
        prev \in {bc.currentSafeBlock, UnknownHash, ShortBytes},
        ts \in {1, Config.CancunTime},
        txs \in SeqsUpTo(RollupDataItems, MaxTxs)}

NextTx ==
    \/ Idle /\ GetGenesisInfo
    \/ Idle /\ GetCommitmentState
    \/ Idle /\ \E req \in TxExecuteBlockRequests : ExecuteBlock(req)
    \/ Return

SpecTx == Init /\ [][NextTx]_vars

(***************************************************************************)
(* SpecUserTx: invalid user transactions.  After start-up, until the first *)
(* block is inserted, blocks are built on the soft block from every list   *)
(* of up to MaxUserTxs user transactions, valid ones ("txA", "txB") and    *)
(* one the payload builder does not accept ("txX": over the gas limit).    *)
(***************************************************************************)
MaxUserTxs == 2

UserTxs ==
    { [kind |-> "seq", data |-> "txA", executable |-> TRUE, bridge |-> "", asset |-> ""],
      [kind |-> "seq", data |-> "txB", executable |-> TRUE, bridge |-> "", asset |-> ""],
      [kind |-> "seq", data |-> "txX", executable |-> FALSE, bridge |-> "", asset |-> ""] }

UserTxExecuteBlockRequests ==
    {ExecuteBlockRequest(bc.currentSafeBlock, 1, txs, NoBeaconRoot) :
        txs \in SeqsUpTo(UserTxs, MaxUserTxs)}

NoBlockInserted == builtSinceUpdate = {}

NextUserTx ==
    \/ Idle /\ GetGenesisInfo
    \/ Idle /\ GetCommitmentState
    \/ Idle /\ NoBlockInserted /\ \E req \in UserTxExecuteBlockRequests : ExecuteBlock(req)
    \/ Return

SpecUserTx == Init /\ [][NextUserTx]_vars

(***************************************************************************)
(* SpecAnyStart: the service may also start on a chain whose safe or final *)
(* block has never been set (CurrentSafeBlock or CurrentFinalBlock is nil; *)
(* the unset pointer is the zero hash, which names no block).              *)
(***************************************************************************)
UnsetPointers(c) ==
    { [c EXCEPT !.currentSafeBlock = safe, !.currentFinalBlock = final] :
        safe \in {c.currentSafeBlock, ZeroHash},
        final \in {c.currentFinalBlock, ZeroHash} }

InitAnyStart ==
    /\ bc \in UnsetPointers(GeneratedChain(InitBlocks))
    /\ astriaOrdered = <<>>
    /\ nextFeeRecipient = InitialFeeRecipient
    /\ auctioneerAddress = NoAuctioneer
    /\ genesisInfoCalled = FALSE
    /\ getCommitmentStateCalled = FALSE
    /\ synced = FALSE
    /\ last = NoCall
    /\ builtSinceUpdate = {}
    /\ lastBuilt = NoBuilt
    /\ NoneInFlight

SpecAnyStart == InitAnyStart /\ [][Next]_vars

(***************************************************************************)
(* Properties.  A step that serves a call takes `last` from NoCall to the  *)
(* call's record, so last' names the call of the step, the unprimed        *)
(* variables the state it was served in and the primed ones the state it   *)
(* leaves.                                                                 *)
(***************************************************************************)
HandshakeDone == genesisInfoCalled /\ getCommitmentStateCalled

\* b2 is b1 or descends from it, by the parent links of the store.
RECURSIVE DescendsFrom(_, _, _)
DescendsFrom(c, b2, b1) ==
    \/ b2 = b1
    \/ /\ b2.number > b1.number
       /\ HasBlock(c, b2.parentHash)
       /\ DescendsFrom(c, GetBlockByHash(c, b2.parentHash), b1)

\* C1: an ExecuteBlock that reaches the handshake check while GetGenesisInfo or
\* GetCommitmentState has not been called returns PermissionDenied, whatever
\* its parent hash is, and changes nothing: no block is inserted, and
\* TxPool.ordered, the head, safe and final pointers and next_fee_recipient
\* stay as they are.
C1_ExecuteBlockBeforeHandshake ==
    [][ ( /\ last'.op = "ExecuteBlock"
          /\ ValidateStaticExecuteBlockRequest(last'.req)
          /\ ~HandshakeDone )
        => ( /\ last'.status = "PermissionDenied"
             /\ bc' = bc
             /\ astriaOrdered' = astriaOrdered
             /\ nextFeeRecipient' = nextFeeRecipient ) ]_vars

\* C1 witness: GetGenesisInfo alone has been called and a block built on the
\* soft block is denied.
C1_Witness ==
    /\ last.op = "ExecuteBlock"
    /\ last.status = "PermissionDenied"
    /\ genesisInfoCalled /\ ~getCommitmentStateCalled
    /\ last.req.prevBlockHash = bc.currentSafeBlock

\* C2: after the handshake, an ExecuteBlock whose parent hash is not the hash
\* of the safe block returns FailedPrecondition and changes nothing; so a
\* block returned by an OK ExecuteBlock is rejected as a parent as long as no
\* UpdateCommitmentState has been called since.
C2_ExecuteBlockStaleParent ==
    [][ ( /\ last'.op = "ExecuteBlock"
          /\ ValidateStaticExecuteBlockRequest(last'.req)
          /\ HandshakeDone
          /\ \/ last'.req.prevBlockHash # bc.currentSafeBlock
             \/ last'.req.prevBlockHash \in builtSinceUpdate )
        => ( /\ last'.status = "FailedPrecondition"
             /\ bc' = bc
             /\ astriaOrdered' = astriaOrdered ) ]_vars

\* C2 witness: a block that an OK ExecuteBlock has just returned is rejected
\* as the parent of the next block.
C2_Witness ==
    /\ last.op = "ExecuteBlock"
    /\ last.status = "FailedPrecondition"
    /\ last.req.prevBlockHash \in builtSinceUpdate

\* C3: an ExecuteBlock that returns OK leaves the commitment state alone: the
\* head, the safe pointer, the final pointer and the base celestia height are
\* the same after the call, and GetCommitmentState reads the same value.
C3_ExecuteBlockKeepsCommitmentState ==
    [][ (last'.op = "ExecuteBlock" /\ last'.status = "OK")
        => ( /\ bc'.currentBlock = bc.currentBlock
             /\ bc'.currentSafeBlock = bc.currentSafeBlock
             /\ bc'.currentFinalBlock = bc.currentFinalBlock
             /\ bc'.baseCelestiaHeight = bc.baseCelestiaHeight
             /\ CommitmentStateOf(bc') = CommitmentStateOf(bc) ) ]_vars

\* C3 witness: an ExecuteBlock has returned OK and its block is in the store.
C3_Witness ==
    /\ last.op = "ExecuteBlock"
    /\ last.status = "OK"
    /\ HasBlock(bc, last.res.hash)
    /\ last.res.hash # bc.currentBlock

\* C4: after an ExecuteBlock that returns OK, TxPool.ordered is empty,
\* whatever the request's items are and whatever the calls before left in it.
C4_OrderedEmptyAfterExecuteBlock ==
    (last.op = "ExecuteBlock" /\ last.status = "OK") => astriaOrdered = <<>>

\* C4 witness: an OK ExecuteBlock whose request had a transaction or an
\* accepted deposit to stage.
C4_Witness ==
    /\ last.op = "ExecuteBlock"
    /\ last.status = "OK"
    /\ UnbundleRollupDataTransactions(last.req.transactions, last.res.number,
                                      last.req.prevBlockHash) # <<>>
    /\ astriaOrdered = <<>>

\* C5 as claimed: every OK ExecuteBlock adds exactly one block to the store,
\* and the returned Block describes it.
C5_ExactlyOneBlockAdded ==
    [][ (last'.op = "ExecuteBlock" /\ last'.status = "OK")
        => ( /\ Cardinality(bc'.blocks) = Cardinality(bc.blocks) + 1
             /\ HasBlock(bc', last'.res.hash) ) ]_vars

\* C5 as amended: every OK ExecuteBlock leaves the store with the block it
\* returns and no other new block (the block is new unless the same block was
\* stored before), and the returned Block describes it: its number is the
\* head's number plus one, its parent hash the request's, its timestamp the
\* request's, its hash the stored block's.
C5_ReturnedBlockStored ==
    [][ (last'.op = "ExecuteBlock" /\ last'.status = "OK")
        => \E b \in bc'.blocks :
              /\ bc'.blocks = bc.blocks \cup {b}
              /\ last'.res.hash = Hash(b)
              /\ last'.res.number = b.number
              /\ last'.res.number = CurrentBlock(bc).number + 1
              /\ last'.res.parentBlockHash = last'.req.prevBlockHash
              /\ b.parentHash = last'.req.prevBlockHash
              /\ last'.res.timestamp = last'.req.timestamp
              /\ b.time = last'.req.timestamp ]_vars

\* C5 witness: an OK ExecuteBlock has returned a block above the head.
C5_Witness ==
    /\ last.op = "ExecuteBlock"
    /\ last.status = "OK"
    /\ last.res.number = CurrentBlock(bc).number + 1
    /\ \E b \in bc.blocks : Hash(b) = last.res.hash /\ b.parentHash = bc.currentSafeBlock

\* C6: after an UpdateCommitmentState that returns OK the safe pointer is the
\* block with the request's soft hash, the final pointer the block with the
\* request's firm hash, the head the soft block, and the response is the
\* request's CommitmentState.
C6_UpdateSetsPointers ==
    (last.op = "UpdateCommitmentState" /\ last.status = "OK")
    => ( /\ HasBlock(bc, last.req.soft.hash)
         /\ HasBlock(bc, last.req.firm.hash)
         /\ Hash(CurrentSafeBlock(bc)) = last.req.soft.hash
         /\ Hash(CurrentFinalBlock(bc)) = last.req.firm.hash
         /\ Hash(CurrentBlock(bc)) = last.req.soft.hash
         /\ last.res = last.req )

\* C6 witness: an OK update whose soft block is above its firm block.
C6_Witness ==
    /\ last.op = "UpdateCommitmentState"
    /\ last.status = "OK"
    /\ last.req.soft.hash # last.req.firm.hash
    /\ bc.currentSafeBlock = last.req.soft.hash
    /\ bc.currentFinalBlock = last.req.firm.hash

\* The request passes every check before the canonical chain is touched.
UpdReachesChain(c, cs) ==
    /\ ValidateStaticCommitmentState(cs)
    /\ HandshakeDone
    /\ cs.baseCelestiaHeight >= c.baseCelestiaHeight
    /\ HasBlock(c, cs.soft.hash)
    /\ HasBlock(c, cs.firm.hash)

\* The firm block of the request is the soft block or one of its ancestors.
UpdFirmInSoftChain(c, cs) ==
    DescendsFrom(c, GetBlockByHash(c, cs.soft.hash), GetBlockByHash(c, cs.firm.hash))

C8_InvalidArgumentIffBaseDecreases ==
    [][ /\ ( /\ last'.op = "UpdateCommitmentState"
             /\ ValidateStaticCommitmentState(last'.req)
             /\ HandshakeDone )
           => ( (last'.status = "InvalidArgument" /\ UNCHANGED service)
                <=> last'.req.baseCelestiaHeight < bc.baseCelestiaHeight )
        /\ bc'.baseCelestiaHeight >= bc.baseCelestiaHeight ]_vars

\* C8 as amended: an UpdateCommitmentState (well formed, after the handshake)
\* whose base celestia height is below the stored one returns InvalidArgument
\* and changes nothing; one whose height is equal or above is not rejected for
\* its height (it returns OK when its blocks are stored and its firm block is
\* on the soft block's chain, unless the engine fails); InvalidArgument is
\* also the answer to unknown blocks and to a firm block off the soft chain.
\* Over any sequence of calls the stored height never decreases.
C8_BaseHeightMonotone ==
    [][ /\ ( /\ last'.op = "UpdateCommitmentState"
             /\ ValidateStaticCommitmentState(last'.req)
             /\ HandshakeDone
             /\ last'.req.baseCelestiaHeight < bc.baseCelestiaHeight )
           => (last'.status = "InvalidArgument" /\ UNCHANGED service)
        /\ ( /\ last'.op = "UpdateCommitmentState"
             /\ UpdReachesChain(bc, last'.req)
             /\ UpdFirmInSoftChain(bc, last'.req)
             /\ last'.status # "Internal" )
           => last'.status = "OK"
        /\ bc'.baseCelestiaHeight >= bc.baseCelestiaHeight ]_vars

\* C8 witness: a request that names stored blocks, with its firm block on the
\* soft block's chain, has been rejected for a height below the stored one.
C8_Witness ==
    /\ last.op = "UpdateCommitmentState"
    /\ last.status = "InvalidArgument"
    /\ ValidateStaticCommitmentState(last.req)
    /\ HandshakeDone
    /\ HasBlock(bc, last.req.soft.hash)
    /\ HasBlock(bc, last.req.firm.hash)
    /\ UpdFirmInSoftChain(bc, last.req)
    /\ last.req.baseCelestiaHeight < bc.baseCelestiaHeight

\* C9: after an UpdateCommitmentState(cs) that returns OK, GetCommitmentState
\* returns cs: the soft hash, the firm hash and the base celestia height of
\* the request, whether or not the firm block was already the final block.
C9_UpdateThenGetReturnsRequest ==
    (last.op = "UpdateCommitmentState" /\ last.status = "OK")
    => ( /\ CommitmentStateOf(bc).soft.hash = last.req.soft.hash
         /\ CommitmentStateOf(bc).firm.hash = last.req.firm.hash
         /\ CommitmentStateOf(bc).baseCelestiaHeight = last.req.baseCelestiaHeight )

\* C10: in every reachable state the final block is not above the safe block
\* and the safe block is not above the head.
C10_FirmSoftHeadOrdered ==
    /\ CurrentFinalBlock(bc).number <= CurrentSafeBlock(bc).number
    /\ CurrentSafeBlock(bc).number <= CurrentBlock(bc).number

\* C10 witness: an update has put the safe block strictly above the final one.
C10_Witness ==
    /\ last.op = "UpdateCommitmentState"
    /\ last.status = "OK"
    /\ CurrentFinalBlock(bc).number < CurrentSafeBlock(bc).number
    /\ CurrentSafeBlock(bc).number > InitBlocks

\* C11: in every reachable state the canonical index agrees with both
\* commitment pointers: the canonical hash at the final block's height is the
\* final block's hash, and the canonical hash at the safe block's height is
\* the safe block's hash.
C11_PointersCanonical ==
    /\ GetCanonicalHash(bc, CurrentFinalBlock(bc).number) = bc.currentFinalBlock
    /\ GetCanonicalHash(bc, CurrentSafeBlock(bc).number) = bc.currentSafeBlock

\* C11 witness: an update has made a block safe that has a sibling of the same
\* height in the store, above the final block.
C11_Witness ==
    /\ last.op = "UpdateCommitmentState"
    /\ last.status = "OK"
    /\ \E b \in bc.blocks : /\ b.number = CurrentSafeBlock(bc).number
                            /\ Hash(b) # bc.currentSafeBlock
    /\ CurrentFinalBlock(bc).number < CurrentSafeBlock(bc).number

\* C12: the firm head is never reorganised: after an UpdateCommitmentState
\* that returns OK the final block is the previous final block or a
\* descendant of it, so its number has not decreased and the previous final
\* block is still on the canonical chain.
C12_FirmNeverReorganised ==
    [][ (last'.op = "UpdateCommitmentState" /\ last'.status = "OK")
        => ( /\ DescendsFrom(bc', CurrentFinalBlock(bc'), CurrentFinalBlock(bc))
             /\ CurrentFinalBlock(bc').number >= CurrentFinalBlock(bc).number
             /\ GetCanonicalHash(bc', CurrentFinalBlock(bc).number) = bc.currentFinalBlock )
      ]_vars

\* C13: an UpdateCommitmentState that reaches the handshake check (its
\* CommitmentState is well formed) while GetGenesisInfo or GetCommitmentState
\* has not been called returns PermissionDenied, and the canonical chain, the
\* head, the safe and final pointers and the base celestia height are
\* unchanged.
C13_UpdateBeforeHandshakeDenied ==
    [][ ( /\ last'.op = "UpdateCommitmentState"
          /\ ValidateStaticCommitmentState(last'.req)
          /\ ~HandshakeDone )
        => ( /\ last'.status = "PermissionDenied"
             /\ bc' = bc
             /\ UNCHANGED service ) ]_vars

\* C13 witness: GetCommitmentState alone has been called, and an update that
\* names stored blocks and an acceptable height is denied.
C13_Witness ==
    /\ last.op = "UpdateCommitmentState"
    /\ last.status = "PermissionDenied"
    /\ getCommitmentStateCalled /\ ~genesisInfoCalled
    /\ HasBlock(bc, last.req.soft.hash)
    /\ HasBlock(bc, last.req.firm.hash)
    /\ last.req.baseCelestiaHeight >= bc.baseCelestiaHeight

\* C14: an UpdateCommitmentState that is past the handshake check and whose
\* soft hash or firm hash names no stored block returns InvalidArgument before
\* any change of the canonical chain: the canonical chain, the head, the safe
\* and final pointers and the base celestia height are unchanged.
C14_UnknownBlockInvalidArgument ==
    [][ ( /\ last'.op = "UpdateCommitmentState"
          /\ HandshakeDone
          /\ UpdBlockMissing(bc, last'.req.soft.hash, last'.req.firm.hash) )
        => ( /\ last'.status = "InvalidArgument"
             /\ bc' = bc
             /\ UNCHANGED service ) ]_vars

\* C14 witness: after the handshake a well-formed update with an acceptable
\* height, a stored soft block other than the head and an unknown firm block
\* has been rejected.
C14_Witness ==
    /\ last.op = "UpdateCommitmentState"
    /\ last.status = "InvalidArgument"
    /\ HandshakeDone
    /\ ValidateStaticCommitmentState(last.req)
    /\ last.req.baseCelestiaHeight >= bc.baseCelestiaHeight
    /\ HasBlock(bc, last.req.soft.hash)
    /\ last.req.soft.hash # bc.currentBlock
    /\ ~HasBlock(bc, last.req.firm.hash)

\* C15: ExecuteBlock is deterministic: with the head, safe and final pointers
\* fixed (no UpdateCommitmentState in between), two successive invocations on
\* the same service with the same request return the same block hash.
C15_ExecuteBlockDeterministic ==
    [][ ( /\ last'.op = "ExecuteBlock"
          /\ last'.status = "OK"
          /\ lastBuilt # NoBuilt
          /\ lastBuilt.req = last'.req )
        => lastBuilt.hash = last'.res.hash ]_vars

\* The payload builder accepts the item: a user transaction that executes.
AcceptedUserTx(item) == item.kind = "seq" /\ item.executable

\* C16: invalid user transactions in an ExecuteBlock request do not make the
\* call fail: the call can return OK whatever the request's transactions are,
\* and when it does the inserted block holds exactly the transactions the
\* payload builder accepts, in the order of the request, and TxPool.ordered
\* is empty.
C16_InvalidTransactionsDropped ==
    [][ (last'.op = "ExecuteBlock" /\ last'.status = "OK")
        => LET accepted == SelectSeq(last'.req.transactions, AcceptedUserTx)
           IN  /\ HasBlock(bc', last'.res.hash)
               /\ GetBlockByHash(bc', last'.res.hash).txs
                    = [i \in 1..Len(accepted) |-> accepted[i].data]
               /\ astriaOrdered' = <<>> ]_vars

\* C16 witness: a request that begins with the invalid transaction followed by
\* a valid one has returned OK with a block that holds the valid one only.
C16_Witness ==
    /\ last.op = "ExecuteBlock"
    /\ last.status = "OK"
    /\ Len(last.req.transactions) >= 2
    /\ last.req.transactions[1].data = "txX"
    /\ last.req.transactions[2].data = "txB"
    /\ GetBlockByHash(bc, last.res.hash).txs = <<"txB">>
    /\ astriaOrdered = <<>>

\* The wire Block of the stored block with hash h.
WireBlockOf(c, h) ==
    LET b == GetBlockByHash(c, h)
    IN  [number |-> b.number, hash |-> h, parentBlockHash |-> b.parentHash,
         timestamp |-> b.time]

\* C17: GetCommitmentState returns the blocks named by the safe and the final
\* pointer and the stored base celestia height and sets the handshake flag;
\* when the safe or the final header is missing it returns Internal and
\* leaves the flag as it is.  It changes nothing else.
C17_GetCommitmentState ==
    [][ last'.op = "GetCommitmentState"
        => /\ IF HasBlock(bc, bc.currentSafeBlock) /\ HasBlock(bc, bc.currentFinalBlock)
              THEN /\ last'.status = "OK"
                   /\ last'.res.soft = WireBlockOf(bc, bc.currentSafeBlock)
                   /\ last'.res.firm = WireBlockOf(bc, bc.currentFinalBlock)
                   /\ last'.res.baseCelestiaHeight = bc.baseCelestiaHeight
                   /\ getCommitmentStateCalled'
              ELSE /\ last'.status = "Internal"
                   /\ getCommitmentStateCalled' = getCommitmentStateCalled
           /\ UNCHANGED <<bc, astriaOrdered, nextFeeRecipient, auctioneerAddress,
                          genesisInfoCalled, synced>> ]_vars

\* C17 witness: on a chain whose final block was never set, GetCommitmentState
\* has returned Internal after GetGenesisInfo, and the handshake is not done.
C17_Witness ==
    /\ last.op = "GetCommitmentState"
    /\ last.status = "Internal"
    /\ HasBlock(bc, bc.currentSafeBlock)
    /\ ~HasBlock(bc, bc.currentFinalBlock)
    /\ genesisInfoCalled
    /\ ~getCommitmentStateCalled

\* C18: GetGenesisInfo always succeeds; it returns the SHA-256 digest of the
\* configured rollup name as rollup id, with the configured sequencer genesis
\* block height and celestia block variance, the same at every call; it sets
\* its handshake flag and changes nothing else.
C18_GetGenesisInfo ==
    [][ last'.op = "GetGenesisInfo"
        => ( /\ last'.status = "OK"
             /\ last'.res.rollupId = SHA256(Config.AstriaRollupName)
             /\ last'.res.sequencerGenesisBlockHeight = Config.AstriaSequencerInitialHeight
             /\ last'.res.celestiaBlockVariance = Config.AstriaCelestiaHeightVariance
             /\ genesisInfoCalled'
             /\ UNCHANGED <<bc, astriaOrdered, nextFeeRecipient, auctioneerAddress,
                            getCommitmentStateCalled, synced>> ) ]_vars

\* C18 witness: GetGenesisInfo has been called again after the handshake, a
\* block having been built in between.
C18_Witness ==
    /\ last.op = "GetGenesisInfo"
    /\ last.status = "OK"
    /\ genesisInfoCalled
    /\ builtSinceUpdate # {}

\* The block is on the chain that ends in the head.
OnHeadChain(c, b) == DescendsFrom(c, CurrentBlock(c), b)

\* C19: GetBlock returns InvalidArgument when the request has no identifier or
\* an identifier of no recognised kind, NotFound when no header matches the
\* number (on the canonical chain) or the hash, and otherwise the stored
\* block's number, hash, parent hash and timestamp; it does not need the
\* handshake and changes no state.
C19_GetBlock ==
    [][ last'.op = "GetBlock"
        => LET id == last'.req
               byNumber == {b \in bc.blocks : b.number = id.number /\ OnHeadChain(bc, b)}
           IN  /\ UNCHANGED service
               /\ id.kind \in {"nil", "unset"} => last'.status = "InvalidArgument"
               /\ id.kind = "number" =>
                    IF byNumber = {}
                    THEN last'.status = "NotFound"
                    ELSE /\ last'.status = "OK"
                         /\ \E b \in byNumber : last'.res = WireBlockOf(bc, Hash(b))
               /\ id.kind = "hash" =>
                    IF ~HasBlock(bc, id.hash)
                    THEN last'.status = "NotFound"
                    ELSE /\ last'.status = "OK"
                         /\ last'.res = WireBlockOf(bc, id.hash) ]_vars

\* C19 witness: before any handshake call, a block above genesis has been
\* returned for its hash.
C19_Witness ==
    /\ last.op = "GetBlock"
    /\ last.status = "OK"
    /\ ~genesisInfoCalled /\ ~getCommitmentStateCalled
    /\ last.req.kind = "hash"
    /\ last.res.number > 0
    /\ last.res.hash = last.req.hash

\* C20: in every reachable state, when the lookup by number n answers with a
\* block b, the lookup by the hash of b answers with a block equal to b.
C20_NumberHashRoundTrip ==
    \A n \in 0..StoreLimit :
        LET byNumber == GetBlockFromIdentifier(bc, ByNumber(n))
        IN  byNumber.status = "OK"
            => LET byHash == GetBlockFromIdentifier(bc, ByHash(byNumber.block.hash))
               IN  /\ byHash.status = "OK"
                   /\ byHash.block = byNumber.block

\* C20 witness: GetBlock has just answered a lookup by the hash of a block
\* above genesis, another block of the same height is stored, and the lookup
\* by the answer's number gives the same answer.
C20_Witness ==
    /\ last.op = "GetBlock"
    /\ last.status = "OK"
    /\ last.req.kind = "hash"
    /\ last.res.number > 0
    /\ \E b \in bc.blocks : b.number = last.res.number /\ Hash(b) # last.res.hash
    /\ GetBlockFromIdentifier(bc, ByNumber(last.res.number)) =
           [status |-> "OK", block |-> last.res]

(***************************************************************************)
(* Batches of several identifiers: those that resolve and those that do    *)
(* not, in every order.                                                    *)
(***************************************************************************)
MaxBatchIds == 2

\* Identifiers by a height that always resolves, by a height that resolves
\* once the head has advanced, by the hash of the head, by a hash of no block,
\* and with no kind set.
BatchIdentifiers(c) ==
    {ByNumber(0), ByNumber(InitBlocks + 1), ByHash(Hash(CurrentBlock(c))),
     ByHash(UnknownHash), UnsetIdentifier}

NextBatch ==
    \/ Idle /\ GetGenesisInfo
    \/ Idle /\ GetCommitmentState
    \/ Idle /\ \E req \in ExecuteBlockRequests : ExecuteBlock(req)
    \/ Idle /\ \E cs \in CommitmentStates : UpdateCommitmentState(cs)
    \/ Idle /\ \E ids \in SeqsUpTo(BatchIdentifiers(bc), MaxBatchIds) : BatchGetBlocks(ids)
    \/ Return

SpecBatch == Init /\ [][NextBatch]_vars

\* The identifier resolves to a block.
Resolves(c, id) == GetBlockFromIdentifier(c, id).status = "OK"

\* C21: BatchGetBlocks returns InvalidArgument on an empty identifier list.
\* When every identifier resolves the response has one block per identifier,
\* in request order.  When some identifier does not resolve the call fails
\* with the error of the first such identifier and returns no blocks.
C21_BatchAllOrNothing ==
    [][ last'.op = "BatchGetBlocks"
        => LET ids == last'.req
               unresolved == {i \in 1..Len(ids) : ~Resolves(bc, ids[i])}
           IN  /\ Len(ids) = 0 =>
                    last'.status = "InvalidArgument" /\ last'.res = NoResponse
               /\ Len(ids) > 0 /\ unresolved = {} =>
                    /\ last'.status = "OK"
                    /\ Len(last'.res) = Len(ids)
                    /\ \A i \in 1..Len(ids) :
                         last'.res[i] = GetBlockFromIdentifier(bc, ids[i]).block
               /\ unresolved # {} =>
                    LET first == CHOOSE i \in unresolved : \A j \in unresolved : i <= j
                    IN  /\ last'.status = GetBlockFromIdentifier(bc, ids[first]).status
                        /\ last'.status \in {"NotFound", "InvalidArgument"}
                        /\ last'.res = NoResponse ]_vars

\* C21 witness: a batch whose first identifier resolves and whose second names
\* no block has failed with NotFound.
C21_Witness ==
    /\ last.op = "BatchGetBlocks"
    /\ Len(last.req) = 2
    /\ Resolves(bc, last.req[1])
    /\ ~Resolves(bc, last.req[2])
    /\ last.status = "NotFound"
    /\ last.res = NoResponse

\* C22: an ExecuteBlock that fails, with whatever status, adds no block and
\* leaves the head, safe and final pointers, the next fee recipient and the
\* auctioneer address as they were; only the ordered list of the pool may
\* stay set.  An ExecuteBlock that builds a payload builds it from the
\* transactions of its own request, whatever list an earlier call left.
C22_FailedExecuteBlockLeavesOnlyOrdered ==
    [][ last'.op = "ExecuteBlock"
        => /\ last'.status # "OK" =>
                /\ last'.res = NoResponse
                /\ UNCHANGED <<bc, nextFeeRecipient, auctioneerAddress,
                               genesisInfoCalled, getCommitmentStateCalled, synced>>
           /\ last'.status = "OK" =>
                \E b \in bc'.blocks :
                    /\ Hash(b) = last'.res.hash
                    /\ b.txs = Executed(UnbundleRollupDataTransactions(
                                   last'.req.transactions, b.number, b.parentHash)) ]_vars

\* C22 witness: an ExecuteBlock has failed after staging its transactions and
\* the ordered list of the pool is still set.
C22_Witness ==
    /\ last.op = "ExecuteBlock"
    /\ last.status \in {"InvalidArgument", "Internal"}
    /\ astriaOrdered # <<>>
    /\ astriaOrdered = UnbundleRollupDataTransactions(last.req.transactions, 0, ZeroHash)

\* C23: the handshake flags only ever change from false to true, so once both
\* are set no ExecuteBlock and no UpdateCommitmentState returns
\* PermissionDenied, whatever calls were made in between.
C23_HandshakeLatches ==
    [][ /\ genesisInfoCalled => genesisInfoCalled'
        /\ getCommitmentStateCalled => getCommitmentStateCalled'
        /\ (HandshakeDone /\ last'.op \in {"ExecuteBlock", "UpdateCommitmentState"})
              => last'.status # "PermissionDenied" ]_vars

\* C23 witness: after the handshake and a block built since, GetGenesisInfo was
\* called again and the flags are still set.
C23_Witness ==
    /\ HandshakeDone
    /\ builtSinceUpdate # {}
    /\ last.op = "GetGenesisInfo"

(***************************************************************************)
(* SpecCancun: blocks are built on the soft block before and from the      *)
(* Cancun time on, with and without a sequencer block hash, and the soft   *)
(* block is moved to a block just built.                                   *)
(***************************************************************************)
SequencerHash == "sequencerBlockHash"

CancunExecuteBlockRequests ==
    {ExecuteBlockRequest(prev, ts, <<>>, seqHash) :
        prev \in {bc.currentSafeBlock, UnknownHash},
        ts \in {1, Config.CancunTime},
        seqHash \in {NoBeaconRoot, SequencerHash}}

CancunCommitmentStates ==
    {CommitmentState(soft, bc.currentFinalBlock, bc.baseCelestiaHeight) :
        soft \in builtSinceUpdate}

NextCancun ==
    \/ Idle /\ GetGenesisInfo
    \/ Idle /\ GetCommitmentState
    \/ Idle /\ \E req \in CancunExecuteBlockRequests : ExecuteBlock(req)
    \/ Idle /\ \E cs \in CancunCommitmentStates : UpdateCommitmentState(cs)
    \/ Return

SpecCancun == Init /\ [][NextCancun]_vars

\* The request passes the static validation, the handshake check and the
\* parent check.
ExecOtherwiseValid(req) ==
    /\ ValidateStaticExecuteBlockRequest(req)
    /\ HandshakeDone
    /\ req.prevBlockHash = bc.currentSafeBlock

\* C28 (as claimed): an otherwise valid ExecuteBlock fails with
\* InvalidArgument and changes no state when the Cancun predicate holds for
\* (head number + 1, timestamp) and the sequencer block hash is absent, and
\* also when the predicate does not hold and the hash is present; the block
\* is built with the sequencer block hash as its beacon root exactly when
\* Cancun is active.
C28_SequencerHashValidated ==
    [][ (last'.op = "ExecuteBlock" /\ ExecOtherwiseValid(last'.req))
        => LET req == last'.req
               cancun == IsCancun(CurrentBlock(bc).number + 1, req.timestamp)
               present == req.sequencerBlockHash # NoBeaconRoot
           IN  /\ (cancun /\ ~present) =>
                    last'.status = "InvalidArgument" /\ UNCHANGED service
               /\ (~cancun /\ present) =>
                    last'.status = "InvalidArgument" /\ UNCHANGED service
               /\ last'.status = "OK" =>
                    \E b \in bc'.blocks :
                        /\ Hash(b) = last'.res.hash
                        /\ b.beaconRoot = IF cancun THEN req.sequencerBlockHash
                                          ELSE NoBeaconRoot ]_vars

\* The stored block the response of an OK ExecuteBlock names.
BuiltBlock(c, res) == CHOOSE b \in c.blocks : Hash(b) = res.hash

\* C29: an ExecuteBlock that returns OK for a block of height h builds the
\* block with the next fee recipient held before the call; afterwards the
\* next fee recipient is the fee collector configured for h + 1 if there is
\* one, and is unchanged otherwise.
C29_FeeRecipientAfterBlock ==
    [][ (last'.op = "ExecuteBlock" /\ last'.status = "OK")
        => LET h == last'.res.number
           IN  /\ HasBlock(bc', last'.res.hash)
               /\ BuiltBlock(bc', last'.res).number = h
               /\ BuiltBlock(bc', last'.res).coinbase = nextFeeRecipient
               /\ nextFeeRecipient' =
                    IF h + 1 \in DOMAIN AstriaFeeCollectors
                    THEN AstriaFeeCollectors[h + 1]
                    ELSE nextFeeRecipient ]_vars

\* C29 witness: a block of the height just below a configured fee collector
\* has been built with the old recipient, and the new one is now stored.
C29_Witness ==
    /\ last.op = "ExecuteBlock"
    /\ last.status = "OK"
    /\ last.res.number + 1 \in DOMAIN AstriaFeeCollectors
    /\ BuiltBlock(bc, last.res).coinbase # AstriaFeeCollectors[last.res.number + 1]
    /\ nextFeeRecipient = AstriaFeeCollectors[last.res.number + 1]

\* C30 (as claimed): after an OK ExecuteBlock at height h the auctioneer
\* address is the entry configured for h + 1 only if that entry exists and
\* is a valid bech32m address under the configured prefix; with an invalid
\* entry the address keeps its previous value.
C30_AuctioneerOnlyIfValid ==
    [][ (last'.op = "ExecuteBlock" /\ last'.status = "OK")
        => LET h == last'.res.number
           IN  auctioneerAddress' =
                   IF /\ h + 1 \in DOMAIN AstriaAuctioneerAddresses
                      /\ ValidateBech32mAddress(AstriaAuctioneerAddresses[h + 1],
                                                Config.AstriaSequencerAddressPrefix)
                   THEN AstriaAuctioneerAddresses[h + 1]
                   ELSE auctioneerAddress ]_vars

(***************************************************************************)
(* SpecConc: concurrent calls.  The transport delivers requests            *)
(* concurrently; a call in progress is a slot of `calls` with its position *)
(* (pc) and its local variables, and every step reads or writes the shared *)
(* state once.  Steps that touch only state guarded by the call's own      *)
(* mutex are taken together.  The specification starts after the           *)
(* handshake.                                                              *)
(***************************************************************************)
history == <<last, builtSinceUpdate, lastBuilt, previous, ms>>

At(p, op, pc) == calls[p].op = op /\ calls[p].pc = pc

Started(op, req, pc) == [NotInFlight EXCEPT !.op = op, !.req = req, !.pc = pc]

Goto(p, pc) == calls' = [calls EXCEPT ![p].pc = pc]

Finish(p, status, res) ==
    calls' = [calls EXCEPT ![p].pc = "done", ![p].status = status, ![p].res = res]

\* The caller takes the response; the slot is free for the next call.
ConcReturn(p) ==
    /\ calls[p].pc = "done"
    /\ calls' = [calls EXCEPT ![p] = NotInFlight]
    /\ UNCHANGED <<service, history, blockExecutionLock, commitmentUpdateLock>>

\* GetBlock takes no mutex and reads the store once.
ConcGetBlock(p, id) ==
    LET r == GetBlockFromIdentifier(bc, id)
    IN  /\ calls[p] = NotInFlight
        /\ calls' = [calls EXCEPT ![p] =
                        [Started("GetBlock", id, "done") EXCEPT
                            !.status = IF id.kind = "nil" THEN "InvalidArgument" ELSE r.status,
                            !.res = IF id.kind = "nil" THEN NoResponse ELSE r.block]]
        /\ UNCHANGED <<service, history, blockExecutionLock, commitmentUpdateLock>>

\* ---- ExecuteBlock, step by step ----
ExecInProgress == {q \in Procs : calls[q].op = "ExecuteBlock" /\ calls[q].pc # "done"}

\* Static validation, before the mutex is taken.
ConcExecuteBlock(p, req) ==
    /\ calls[p] = NotInFlight
    /\ Cardinality(bc.blocks) + Cardinality(ExecInProgress) < StoreLimit
    /\ calls' = [calls EXCEPT ![p] =
                    IF ~ValidateStaticExecuteBlockRequest(req)
                    THEN [Started("ExecuteBlock", req, "done") EXCEPT
                             !.status = "InvalidArgument"]
                    ELSE Started("ExecuteBlock", req, "lock")]
    /\ UNCHANGED <<service, history, blockExecutionLock, commitmentUpdateLock>>

\* Faulty variant: the call goes on without taking the mutex.
ExecLockNotTaken(p) ==
    /\ At(p, "ExecuteBlock", "lock")
    /\ Goto(p, "handshake")
    /\ UNCHANGED <<service, history, blockExecutionLock, commitmentUpdateLock>>

\* s.blockExecutionLock().Lock()
ExecLock(p) ==
    /\ At(p, "ExecuteBlock", "lock")
    /\ blockExecutionLock = NoHolder
    /\ blockExecutionLock' = p
    /\ Goto(p, "handshake")
    /\ UNCHANGED <<service, history, commitmentUpdateLock>>

\* Faulty variant: a return that leaves the mutex locked.
ExecReturnLocked(p, status, res) ==
    /\ Finish(p, status, res)
    /\ blockExecutionLock' = IF status = "OK" THEN NoHolder ELSE blockExecutionLock

\* A return of ExecuteBlock: the deferred Unlock runs.
ExecReturn(p, status, res) ==
    /\ Finish(p, status, res)
    /\ blockExecutionLock' = NoHolder

ExecCheckHandshake(p) ==
    /\ At(p, "ExecuteBlock", "handshake")
    /\ IF ExecHandshakeMissing
       THEN ExecReturn(p, "PermissionDenied", NoResponse)
       ELSE Goto(p, "parent") /\ UNCHANGED blockExecutionLock
    /\ UNCHANGED <<service, history, commitmentUpdateLock>>

ExecCheckParent(p) ==
    /\ At(p, "ExecuteBlock", "parent")
    /\ IF ExecParentMismatch(bc, calls[p].req.prevBlockHash)
       THEN ExecReturn(p, "FailedPrecondition", NoResponse)
       ELSE Goto(p, "height") /\ UNCHANGED blockExecutionLock
    /\ UNCHANGED <<service, history, commitmentUpdateLock>>

ExecReadHeight(p) ==
    LET height == ExecHeight(bc)
    IN  /\ At(p, "ExecuteBlock", "height")
        /\ IF ExecCancunHashMissing(calls[p].req, height)
           THEN ExecReturn(p, "InvalidArgument", NoResponse)
           ELSE /\ calls' = [calls EXCEPT ![p].pc = "stage", ![p].height = height]
                /\ UNCHANGED blockExecutionLock
        /\ UNCHANGED <<service, history, commitmentUpdateLock>>

ExecStage(p) ==
    LET req == calls[p].req
        txsToProcess ==
            UnbundleRollupDataTransactions(req.transactions, calls[p].height,
                                           req.prevBlockHash)
    IN  /\ At(p, "ExecuteBlock", "stage")
        /\ astriaOrdered' = ExecStageOrdered(txsToProcess)
        /\ Goto(p, "build")
        /\ UNCHANGED <<bc, nextFeeRecipient, auctioneerAddress, genesisInfoCalled,
                       getCommitmentStateCalled, synced, history, blockExecutionLock,
                       commitmentUpdateLock>>

\* The payload builder reads the ordered list of the pool.
ExecBuild(p) ==
    LET req == calls[p].req
        payloadAttributes ==
            ExecPayloadAttributes(req, req.prevBlockHash, nextFeeRecipient,
                                  ExecSequencerHashRef(req, calls[p].height))
    IN  /\ At(p, "ExecuteBlock", "build")
        /\ \E fault \in {"none", "build"} :
             IF fault = "build"
             THEN ExecReturn(p, "InvalidArgument", NoResponse)
             ELSE /\ calls' = [calls EXCEPT
                                 ![p].pc = "insert",
                                 ![p].block = BuildPayload(bc, payloadAttributes,
                                                           astriaOrdered)]
                  /\ UNCHANGED blockExecutionLock
        /\ UNCHANGED <<service, history, commitmentUpdateLock>>

ExecInsertBlock(p) ==
    /\ At(p, "ExecuteBlock", "insert")
    /\ \E fault \in {"none", "convert", "insert"} :
         IF fault # "none"
         THEN ExecReturn(p, "Internal", NoResponse) /\ UNCHANGED bc
         ELSE /\ bc' = ExecInsert(bc, calls[p].block)
              /\ Goto(p, "clear")
              /\ UNCHANGED blockExecutionLock
    /\ UNCHANGED <<astriaOrdered, nextFeeRecipient, auctioneerAddress, genesisInfoCalled,
                   getCommitmentStateCalled, synced, history, commitmentUpdateLock>>

ExecClear(p) ==
    /\ At(p, "ExecuteBlock", "clear")
    /\ astriaOrdered' = ExecClearOrdered(astriaOrdered)
    /\ Goto(p, "config")
    /\ UNCHANGED <<bc, nextFeeRecipient, auctioneerAddress, genesisInfoCalled,
                   getCommitmentStateCalled, synced, history, blockExecutionLock,
                   commitmentUpdateLock>>

\* The response, the fee recipient and the auctioneer address of the next
\* block, and the return.
ExecConfigure(p) ==
    LET res == ExecResponse(calls[p].block)
    IN  /\ At(p, "ExecuteBlock", "config")
        /\ nextFeeRecipient' = ExecNextFeeRecipient(nextFeeRecipient, res.number)
        /\ auctioneerAddress' = ExecAuctioneerAddress(auctioneerAddress, res.number)
        /\ ExecReturn(p, "OK", res)
        /\ UNCHANGED <<bc, astriaOrdered, genesisInfoCalled, getCommitmentStateCalled,
                       synced, history, commitmentUpdateLock>>

\* ---- UpdateCommitmentState, step by step ----
\* Static validation, before the mutex is taken.
ConcUpdateCommitmentState(p, cs) ==
    /\ calls[p] = NotInFlight
    /\ calls' = [calls EXCEPT ![p] =
                    IF ~ValidateStaticCommitmentState(cs)
                    THEN [Started("UpdateCommitmentState", cs, "done") EXCEPT
                             !.status = "InvalidArgument"]
                    ELSE Started("UpdateCommitmentState", cs, "lock")]
    /\ UNCHANGED <<service, history, blockExecutionLock, commitmentUpdateLock>>

\* Faulty variant: the call goes on without taking the mutex.
UpdLockNotTaken(p) ==
    /\ At(p, "UpdateCommitmentState", "lock")
    /\ Goto(p, "handshake")
    /\ UNCHANGED <<service, history, blockExecutionLock, commitmentUpdateLock>>

\* s.commitmentUpdateLock().Lock()
UpdLock(p) ==
    /\ At(p, "UpdateCommitmentState", "lock")
    /\ commitmentUpdateLock = NoHolder
    /\ commitmentUpdateLock' = p
    /\ Goto(p, "handshake")
    /\ UNCHANGED <<service, history, blockExecutionLock>>

\* A return of UpdateCommitmentState: the deferred Unlock runs.
UpdReturn(p, status, res) ==
    /\ Finish(p, status, res)
    /\ commitmentUpdateLock' = NoHolder

UpdCheckHandshake(p) ==
    /\ At(p, "UpdateCommitmentState", "handshake")
    /\ IF UpdHandshakeMissing
       THEN UpdReturn(p, "PermissionDenied", NoResponse)
       ELSE Goto(p, "base") /\ UNCHANGED commitmentUpdateLock
    /\ UNCHANGED <<service, history, blockExecutionLock>>

UpdCheckBase(p) ==
    /\ At(p, "UpdateCommitmentState", "base")
    /\ IF UpdBaseHeightDecreased(bc, calls[p].req)
       THEN UpdReturn(p, "InvalidArgument", NoResponse)
       ELSE Goto(p, "lookup") /\ UNCHANGED commitmentUpdateLock
    /\ UNCHANGED <<service, history, blockExecutionLock>>

\* The two lookups read the block store, from which nothing is ever removed.
UpdLookup(p) ==
    /\ At(p, "UpdateCommitmentState", "lookup")
    /\ IF UpdBlockMissing(bc, calls[p].req.soft.hash, calls[p].req.firm.hash)
       THEN UpdReturn(p, UpdBlockMissingStatus, NoResponse)
       ELSE Goto(p, "canonical") /\ UNCHANGED commitmentUpdateLock
    /\ UNCHANGED <<service, history, blockExecutionLock>>

\* The head is read and the canonical chain is moved to the soft block.
UpdSetCanonical(p) ==
    LET softEthHash == calls[p].req.soft.hash
        currentHead == Hash(CurrentBlock(bc))
    IN  /\ At(p, "UpdateCommitmentState", "canonical")
        /\ \/ /\ currentHead # softEthHash
              /\ UpdReturn(p, "Internal", NoResponse)
              /\ UNCHANGED bc
           \/ /\ bc' = UpdCanonicalToSoft(bc, currentHead, GetBlockByHash(bc, softEthHash))
              /\ calls' = [calls EXCEPT ![p].pc = "firm", ![p].currentHead = currentHead]
              /\ UNCHANGED commitmentUpdateLock
        /\ UNCHANGED <<astriaOrdered, nextFeeRecipient, auctioneerAddress, genesisInfoCalled,
                       getCommitmentStateCalled, synced, history, blockExecutionLock>>

\* Once the head is updated: does the firm block belong to the canonical chain?
UpdCheckFirm(p) ==
    LET firmEthHash == calls[p].req.firm.hash
    IN  /\ At(p, "UpdateCommitmentState", "firm")
        /\ IF UpdFirmNotCanonical(bc, GetBlockByHash(bc, firmEthHash), firmEthHash)
           THEN Goto(p, "rollback")
           ELSE Goto(p, "safe")
        /\ UNCHANGED <<service, history, blockExecutionLock, commitmentUpdateLock>>

\* The canonical chain is moved back and the call returns.
UpdRollBack(p) ==
    /\ At(p, "UpdateCommitmentState", "rollback")
    /\ bc' = UpdRollback(bc, GetBlockByHash(bc, calls[p].currentHead))
    /\ UpdReturn(p, "InvalidArgument", NoResponse)
    /\ UNCHANGED <<astriaOrdered, nextFeeRecipient, auctioneerAddress, genesisInfoCalled,
                   getCommitmentStateCalled, synced, history, blockExecutionLock>>

\* Faulty variant: the final pointer is written where the safe pointer should be.
UpdSetFinalFirst(p) ==
    LET cs == calls[p].req
    IN  /\ At(p, "UpdateCommitmentState", "safe")
        /\ synced' = TRUE
        /\ bc' = UpdFinal(bc, GetBlockByHash(bc, cs.firm.hash), cs.firm.hash,
                          cs.baseCelestiaHeight)
        /\ Goto(p, "final")
        /\ UNCHANGED <<astriaOrdered, nextFeeRecipient, auctioneerAddress, genesisInfoCalled,
                       getCommitmentStateCalled, history, blockExecutionLock,
                       commitmentUpdateLock>>

\* SetSynced and the safe pointer.
UpdSetSafe(p) ==
    LET softEthHash == calls[p].req.soft.hash
    IN  /\ At(p, "UpdateCommitmentState", "safe")
        /\ synced' = TRUE
        /\ bc' = UpdSafe(bc, GetBlockByHash(bc, softEthHash), softEthHash)
        /\ Goto(p, "final")
        /\ UNCHANGED <<astriaOrdered, nextFeeRecipient, auctioneerAddress, genesisInfoCalled,
                       getCommitmentStateCalled, history, blockExecutionLock,
                       commitmentUpdateLock>>

\* The final pointer with the base celestia height, and the return.
UpdSetFinal(p) ==
    LET cs == calls[p].req
        firmEthHash == cs.firm.hash
    IN  /\ At(p, "UpdateCommitmentState", "final")
        /\ bc' = UpdFinal(bc, GetBlockByHash(bc, firmEthHash), firmEthHash,
                          cs.baseCelestiaHeight)
        /\ UpdReturn(p, "OK", cs)
        /\ UNCHANGED <<astriaOrdered, nextFeeRecipient, auctioneerAddress, genesisInfoCalled,
                       getCommitmentStateCalled, synced, history, blockExecutionLock>>

\* ---- The requests of the concurrent callers ----
ConcExecuteBlockRequests ==
    {ExecuteBlockRequest(bc.currentSafeBlock, 1, txs, NoBeaconRoot) :
        txs \in {<<>>,
                 <<[kind |-> "seq", data |-> "tx1", executable |-> TRUE,
                    bridge |-> "", asset |-> ""]>>}}

ConcCommitmentStates ==
    {CommitmentState(soft, bc.currentFinalBlock, bc.baseCelestiaHeight) :
        soft \in KnownHashes}

ConcBlockIdentifiers == {ByNumber(InitBlocks), ByNumber(InitBlocks + 1)}

InitConc ==
    /\ bc = GeneratedChain(InitBlocks)
    /\ astriaOrdered = <<>>
    /\ nextFeeRecipient = InitialFeeRecipient
    /\ auctioneerAddress = NoAuctioneer
    /\ genesisInfoCalled = TRUE
    /\ getCommitmentStateCalled = TRUE
    /\ synced = FALSE
    /\ last = NoCall
    /\ builtSinceUpdate = {}
    /\ lastBuilt = NoBuilt
    /\ NoneInFlight

NextConc ==
    \/ \E p \in Procs : \E id \in ConcBlockIdentifiers : ConcGetBlock(p, id)
    \/ \E p \in Procs : \E req \in ConcExecuteBlockRequests : ConcExecuteBlock(p, req)
    \/ \E p \in Procs : ExecLock(p)
    \/ \E p \in Procs : ExecCheckHandshake(p)
    \/ \E p \in Procs : ExecCheckParent(p)
    \/ \E p \in Procs : ExecReadHeight(p)
    \/ \E p \in Procs : ExecStage(p)
    \/ \E p \in Procs : ExecBuild(p)
    \/ \E p \in Procs : ExecInsertBlock(p)
    \/ \E p \in Procs : ExecClear(p)
    \/ \E p \in Procs : ExecConfigure(p)
    \/ \E p \in Procs : \E cs \in ConcCommitmentStates : ConcUpdateCommitmentState(p, cs)
    \/ \E p \in Procs : UpdLock(p)
    \/ \E p \in Procs : UpdCheckHandshake(p)
    \/ \E p \in Procs : UpdCheckBase(p)
    \/ \E p \in Procs : UpdLookup(p)
    \/ \E p \in Procs : UpdSetCanonical(p)
    \/ \E p \in Procs : UpdCheckFirm(p)
    \/ \E p \in Procs : UpdRollBack(p)
    \/ \E p \in Procs : UpdSetSafe(p)
    \/ \E p \in Procs : UpdSetFinal(p)
    \/ \E p \in Procs : ConcReturn(p)

SpecConc == InitConc /\ [][NextConc]_vars

\* The positions of an ExecuteBlock between its handshake check and its return.
ExecLockedPcs ==
    {"handshake", "parent", "height", "stage", "build", "insert", "clear", "config"}

ExecInsideLock == {p \in Procs : calls[p].op = "ExecuteBlock" /\ calls[p].pc \in ExecLockedPcs}

\* C24: under any interleaving of concurrent ExecuteBlock calls at most one
\* is between its handshake check and its return, and from the moment a call
\* has staged its transactions until its block is inserted the ordered list
\* of the pool is the list that call staged.
C24_ExecutionLockSerialises ==
    /\ Cardinality(ExecInsideLock) <= 1
    /\ \A p \in Procs :
         (calls[p].op = "ExecuteBlock" /\ calls[p].pc \in {"build", "insert"})
            => astriaOrdered =
                   UnbundleRollupDataTransactions(calls[p].req.transactions,
                                                  calls[p].height,
                                                  calls[p].req.prevBlockHash)

\* C24 witness: one ExecuteBlock has staged a transaction and built its
\* payload while another, with a different transaction list, waits for the
\* mutex.
C24_Witness ==
    \E p, q \in Procs :
        /\ At(p, "ExecuteBlock", "insert")
        /\ calls[p].block.txs # <<>>
        /\ astriaOrdered # <<>>
        /\ At(q, "ExecuteBlock", "lock")
        /\ calls[q].req.transactions # calls[p].req.transactions

\* The positions of an UpdateCommitmentState between its handshake check and
\* its return.
UpdLockedPcs ==
    {"handshake", "base", "lookup", "canonical", "firm", "rollback", "safe", "final"}

UpdInsideLock ==
    {p \in Procs : calls[p].op = "UpdateCommitmentState" /\ calls[p].pc \in UpdLockedPcs}

\* C25: under any interleaving of concurrent UpdateCommitmentState calls at
\* most one is between its handshake check and its return; so from the move
\* of the canonical chain to a call's soft block until that call's rollback
\* or return the head is that soft block, and once the call has written the
\* safe pointer it is that soft block until the call returns.
C25_CommitmentLockSerialises ==
    /\ Cardinality(UpdInsideLock) <= 1
    /\ \A p \in Procs :
         calls[p].op = "UpdateCommitmentState"
            => /\ calls[p].pc \in {"firm", "rollback", "safe", "final"}
                    => bc.currentBlock = calls[p].req.soft.hash
               /\ calls[p].pc = "final"
                    => bc.currentSafeBlock = calls[p].req.soft.hash

\* C25 witness: one UpdateCommitmentState has moved the canonical chain to its
\* soft block while another, for a different soft block, waits for the mutex.
C25_Witness ==
    \E p, q \in Procs :
        /\ At(p, "UpdateCommitmentState", "firm")
        /\ calls[p].currentHead # calls[p].req.soft.hash
        /\ At(q, "UpdateCommitmentState", "lock")
        /\ calls[q].req.soft.hash # calls[p].req.soft.hash

\* The update of caller u has moved the canonical chain to its soft block and
\* is going to fail the firm block check, or has failed it and not yet rolled
\* back.
UpdRejectedInProgress(u) ==
    /\ calls[u].op = "UpdateCommitmentState"
    /\ \/ calls[u].pc = "rollback"
       \/ /\ calls[u].pc = "firm"
          /\ UpdFirmNotCanonical(bc, GetBlockByHash(bc, calls[u].req.firm.hash),
                                 calls[u].req.firm.hash)

\* The store with the head and the canonical chain of before u's update.
BeforeUpdate(u) == SetCanonical(bc, GetBlockByHash(bc, calls[u].currentHead))

\* C26 (as claimed): while an UpdateCommitmentState that fails the firm block
\* check is in progress, a concurrent GetBlock by number answers from the
\* canonical chain of before the update, and a concurrent ExecuteBlock reads
\* the head of before the update.
C26_RejectedUpdateIsolated ==
    [][ \A u \in Procs :
          UpdRejectedInProgress(u)
            => \A r \in Procs :
                 /\ (calls[r] = NotInFlight /\ calls'[r].op = "GetBlock")
                      => LET was == GetBlockFromIdentifier(BeforeUpdate(u), calls'[r].req)
                         IN  /\ calls'[r].status = was.status
                             /\ calls'[r].res = was.block
                 /\ (At(r, "ExecuteBlock", "height") /\ calls'[r].pc = "stage")
                      => calls'[r].height = ExecHeight(BeforeUpdate(u)) ]_vars

\* C27 (as claimed): for every interleaving of an ExecuteBlock with an
\* UpdateCommitmentState, the parent of the block ExecuteBlock inserts is the
\* block the safe pointer names at the moment of the insertion.
C27_ParentIsSafeAtInsertion ==
    [][ \A p \in Procs :
          (At(p, "ExecuteBlock", "insert") /\ calls'[p].pc = "clear")
            => /\ calls[p].block \in bc'.blocks
               /\ calls[p].block.parentHash = bc.currentSafeBlock ]_vars

(***************************************************************************)
(* SpecConcCommit: concurrent calls that read and move the commitment      *)
(* state.  Callers build blocks on the soft block, update the commitment   *)
(* state (the firm block kept or moved forward), and read it with          *)
(* GetCommitmentState, which takes no mutex and reads the safe pointer,    *)
(* the final pointer and the base celestia height one after the other.     *)
(***************************************************************************)
\* The safe block is read and converted.
ConcGetCommitmentState(p) ==
    /\ calls[p] = NotInFlight
    /\ calls' = [calls EXCEPT ![p] =
                    IF ~HasBlock(bc, bc.currentSafeBlock)
                    THEN [Started("GetCommitmentState", NoRequest, "done") EXCEPT
                             !.status = "Internal"]
                    ELSE [Started("GetCommitmentState", NoRequest, "firm") EXCEPT
                             !.softBlock = EthHeaderToExecutionBlock(CurrentSafeBlock(bc))]]
    /\ UNCHANGED <<service, history, blockExecutionLock, commitmentUpdateLock>>

\* The final block is read and converted.
GcsReadFirm(p) ==
    /\ At(p, "GetCommitmentState", "firm")
    /\ IF ~HasBlock(bc, bc.currentFinalBlock)
       THEN Finish(p, "Internal", NoResponse)
       ELSE calls' = [calls EXCEPT
                         ![p].pc = "base",
                         ![p].firmBlock = EthHeaderToExecutionBlock(CurrentFinalBlock(bc))]
    /\ UNCHANGED <<service, history, blockExecutionLock, commitmentUpdateLock>>

GcsReadBase(p) ==
    /\ At(p, "GetCommitmentState", "base")
    /\ calls' = [calls EXCEPT ![p].pc = "flag",
                              ![p].celestiaBlock = CurrentBaseCelestiaHeight(bc)]
    /\ UNCHANGED <<service, history, blockExecutionLock, commitmentUpdateLock>>

\* The handshake flag is set and the three values read are returned.
GcsReturn(p) ==
    /\ At(p, "GetCommitmentState", "flag")
    /\ getCommitmentStateCalled' = TRUE
    /\ Finish(p, "OK", [soft |-> calls[p].softBlock, firm |-> calls[p].firmBlock,
                        baseCelestiaHeight |-> calls[p].celestiaBlock])
    /\ UNCHANGED <<bc, astriaOrdered, nextFeeRecipient, auctioneerAddress, genesisInfoCalled,
                   synced, history, blockExecutionLock, commitmentUpdateLock>>

CommitExecuteBlockRequests ==
    {ExecuteBlockRequest(bc.currentSafeBlock, 1, <<>>, NoBeaconRoot)}

\* The conductor keeps the firm block, with any stored block as the soft
\* block, or moves the firm block forward to the soft block.
CommitCommitmentStates ==
    {CommitmentState(soft, bc.currentFinalBlock, bc.baseCelestiaHeight) :
        soft \in KnownHashes}
    \cup {CommitmentState(soft, soft, bc.baseCelestiaHeight) :
             soft \in {h \in KnownHashes :
                          GetBlockByHash(bc, h).number >= CurrentFinalBlock(bc).number}}

\* One block is built on top of the generated ones.
CommitStoreFull == Cardinality(bc.blocks) + Cardinality(ExecInProgress) >= InitBlocks + 2

NextConcCommit ==
    \/ \E p \in Procs : ConcGetCommitmentState(p)
    \/ \E p \in Procs : GcsReadFirm(p)
    \/ \E p \in Procs : GcsReadBase(p)
    \/ \E p \in Procs : GcsReturn(p)
    \/ ~CommitStoreFull
          /\ \E p \in Procs : \E req \in CommitExecuteBlockRequests : ConcExecuteBlock(p, req)
    \/ \E p \in Procs : ExecLock(p)
    \/ \E p \in Procs : ExecCheckHandshake(p)
    \/ \E p \in Procs : ExecCheckParent(p)
    \/ \E p \in Procs : ExecReadHeight(p)
    \/ \E p \in Procs : ExecStage(p)
    \/ \E p \in Procs : ExecBuild(p)
    \/ \E p \in Procs : ExecInsertBlock(p)
    \/ \E p \in Procs : ExecClear(p)
    \/ \E p \in Procs : ExecConfigure(p)
    \/ \E p \in Procs : \E cs \in CommitCommitmentStates : ConcUpdateCommitmentState(p, cs)
    \/ \E p \in Procs : UpdLock(p)
    \/ \E p \in Procs : UpdCheckHandshake(p)
    \/ \E p \in Procs : UpdCheckBase(p)
    \/ \E p \in Procs : UpdLookup(p)
    \/ \E p \in Procs : UpdSetCanonical(p)
    \/ \E p \in Procs : UpdCheckFirm(p)
    \/ \E p \in Procs : UpdRollBack(p)
    \/ \E p \in Procs : UpdSetSafe(p)
    \/ \E p \in Procs : UpdSetFinal(p)
    \/ \E p \in Procs : ConcReturn(p)

SpecConcCommit == InitConc /\ [][NextConcCommit]_vars

\* The firm block of caller p's request is on the canonical chain.
UpdFirmPassed(p) ==
    LET firmEthHash == calls[p].req.firm.hash
    IN  /\ HasBlock(bc, firmEthHash)
        /\ GetCanonicalHash(bc, GetBlockByHash(bc, firmEthHash).number) = firmEthHash

\* C31: the safe and the final pointer are written only by an
\* UpdateCommitmentState whose firm block has passed the canonical check, and
\* the final pointer is moved to the request's firm block only when the safe
\* pointer already holds the request's soft block.
C31_SafeWrittenBeforeFinal ==
    [][ /\ bc'.currentSafeBlock # bc.currentSafeBlock
            => \E p \in Procs :
                  /\ At(p, "UpdateCommitmentState", "safe")
                  /\ calls'[p].pc = "final"
                  /\ UpdFirmPassed(p)
                  /\ bc'.currentSafeBlock = calls[p].req.soft.hash
                  /\ bc'.currentFinalBlock = bc.currentFinalBlock
        /\ bc'.currentFinalBlock # bc.currentFinalBlock
            => \E p \in Procs :
                  /\ At(p, "UpdateCommitmentState", "final")
                  /\ calls'[p].pc = "done"
                  /\ UpdFirmPassed(p)
                  /\ bc.currentSafeBlock = calls[p].req.soft.hash
                  /\ bc'.currentFinalBlock = calls[p].req.firm.hash ]_vars

\* C31 witness: in the middle of an update that moves both pointers, the safe
\* pointer holds the request's soft block and the final pointer does not yet
\* hold the request's firm block.
C31_Witness ==
    \E p \in Procs :
        /\ At(p, "UpdateCommitmentState", "final")
        /\ bc.currentSafeBlock = calls[p].req.soft.hash
        /\ bc.currentFinalBlock # calls[p].req.firm.hash
        /\ calls[p].currentHead # calls[p].req.soft.hash

\* C31 as stated: while an UpdateCommitmentState is in progress, the final
\* pointer holds the request's firm block only if the safe pointer holds the
\* request's soft block.
C31_FinalHeldOnlyIfSafeHeld ==
    \A p \in UpdInsideLock :
        bc.currentFinalBlock = calls[p].req.firm.hash
            => bc.currentSafeBlock = calls[p].req.soft.hash

(***************************************************************************)
(* SpecUnbundle: the unbundler.  After start-up, until the first block is  *)
(* inserted, blocks are built on the soft block from every list of up to   *)
(* MaxItems RollupData items: transactions, a deposit through the          *)
(* configured bridge, a deposit through an unknown bridge and a deposit of *)
(* an asset that is not allowed.                                           *)
(***************************************************************************)
MaxItems == 2

UnbundleItems ==
    RollupDataItems
        \cup { [kind |-> "dep", data |-> "dep3", executable |-> TRUE,
                bridge |-> "bridge1", asset |-> "asset2"] }

UnbundleExecuteBlockRequests ==
    {ExecuteBlockRequest(bc.currentSafeBlock, 1, txs, NoBeaconRoot) :
        txs \in SeqsUpTo(UnbundleItems, MaxItems)}

NextUnbundle ==
    \/ Idle /\ GetGenesisInfo
    \/ Idle /\ GetCommitmentState
    \/ Idle /\ NoBlockInserted /\ \E req \in UnbundleExecuteBlockRequests : ExecuteBlock(req)
    \/ Return

SpecUnbundle == Init /\ [][NextUnbundle]_vars

\* A Deposit whose bridge address is not configured or whose asset is not
\* allowed.
RejectedDeposit(item) ==
    /\ item.kind = "dep"
    /\ item.bridge \notin BridgeAddresses \/ item.asset \notin BridgeAllowedAssets

KeptItem(item) == ~RejectedDeposit(item)

ExecutableItem(item) == KeptItem(item) /\ item.executable

\* C32: the list ExecuteBlock stages is the request's item list in input
\* order with exactly the rejected deposits removed; it depends on the
\* request only; and a rejected deposit does not make the call fail: a call
\* that passes the checks fails only in the engine, after the list is staged,
\* and otherwise inserts the block built from that list.
C32_UnbundleKeepsOrderAndSkips ==
    [][ (last'.op = "ExecuteBlock" /\ ExecOtherwiseValid(last'.req))
        => LET items == last'.req.transactions
               kept == SelectSeq(items, KeptItem)
               run == SelectSeq(items, ExecutableItem)
           IN  IF last'.status = "OK"
               THEN /\ HasBlock(bc', last'.res.hash)
                    /\ GetBlockByHash(bc', last'.res.hash).txs
                         = [i \in 1..Len(run) |-> run[i].data]
               ELSE /\ last'.status \in {"InvalidArgument", "Internal"}
                    /\ Len(astriaOrdered') = Len(kept)
                    /\ \A i \in 1..Len(kept) :
                          /\ astriaOrdered'[i].id = kept[i].data
                          /\ astriaOrdered'[i].kind
                               = (IF kept[i].kind = "dep" THEN "deposit" ELSE "user")
                    /\ bc' = bc ]_vars

\* C32 witness: a request of a rejected deposit followed by an accepted one
\* has returned OK with a block that holds the accepted deposit only.
C32_Witness ==
    /\ last.op = "ExecuteBlock"
    /\ last.status = "OK"
    /\ Len(last.req.transactions) >= 2
    /\ RejectedDeposit(last.req.transactions[1])
    /\ last.req.transactions[2].data = "dep1"
    /\ GetBlockByHash(bc, last.res.hash).txs = <<"dep1">>

(***************************************************************************)
(* SpecRetry: retried commitment updates.  The conductor keeps the         *)
(* commitment state of an update that returned OK, so that the call it     *)
(* makes next can be recognised as a repetition of it.                     *)
(***************************************************************************)
ReturnRemembering ==
    /\ ~Idle
    /\ last' = NoCall
    /\ previous' = (IF last.op = "UpdateCommitmentState" /\ last.status = "OK"
                    THEN last ELSE NoCall)
    /\ UNCHANGED <<service, builtSinceUpdate, lastBuilt, calls, blockExecutionLock,
                   commitmentUpdateLock, ms>>

RetryExecuteBlockRequests ==
    {ExecuteBlockRequest(prev, 1, <<>>, NoBeaconRoot) : prev \in KnownHashes}

NextRetry ==
    \/ Idle /\ GetGenesisInfo
    \/ Idle /\ GetCommitmentState
    \/ Idle /\ \E req \in RetryExecuteBlockRequests : ExecuteBlock(req)
    \/ Idle /\ \E cs \in CommitmentStates : UpdateCommitmentState(cs)
    \/ ReturnRemembering

SpecRetry == Init /\ [][NextRetry]_vars

\* C33: an UpdateCommitmentState that repeats, as the very next call, the
\* commitment state of an update that returned OK returns OK too and leaves
\* the canonical chain, the head, the safe and the final pointer and the
\* base celestia height as the first call left them.
C33_RetriedUpdateIsSafe ==
    [][ (/\ previous.op = "UpdateCommitmentState"
         /\ previous.status = "OK"
         /\ last'.op = "UpdateCommitmentState"
         /\ last'.req = previous.req)
        => /\ last'.status = "OK"
           /\ last'.res = previous.res
           /\ bc' = bc ]_vars

\* C33 witness: the repetition of an update that moved the soft and the firm
\* block and raised the base celestia height has returned.
C33_Witness ==
    /\ previous.op = "UpdateCommitmentState"
    /\ previous.status = "OK"
    /\ last.op = "UpdateCommitmentState"
    /\ last.req = previous.req
    /\ last.status = "OK"
    /\ bc.currentSafeBlock = last.req.soft.hash
    /\ bc.currentFinalBlock = last.req.firm.hash
    /\ bc.currentFinalBlock # Hash(GenesisBlock)
    /\ bc.baseCelestiaHeight > 0

\* C34 (as claimed): the CommitmentState a GetCommitmentState returns, also
\* one that runs concurrently with an UpdateCommitmentState, is a state that
\* was stored at one moment; in particular the number of its firm block does
\* not exceed the number of its soft block.
C34_ConsistentSnapshot ==
    \A p \in Procs :
        (At(p, "GetCommitmentState", "done") /\ calls[p].status = "OK")
            => calls[p].res.firm.number <= calls[p].res.soft.number

\* C35 (as claimed): for every ExecuteBlock that returns OK, the height used
\* for the Cancun check and the unbundler (head number + 1) is the number of
\* the block that is inserted and returned, also when the call interleaves
\* with an UpdateCommitmentState.
C35_HeightAgreement ==
    \A p \in Procs :
        (At(p, "ExecuteBlock", "done") /\ calls[p].status = "OK")
            => /\ calls[p].res.number = calls[p].block.number
               /\ calls[p].height = calls[p].block.number

\* C35 for calls served one at a time: the height computed from the head is
\* the number of the returned block.
HeightAgreementSequential ==
    [][ (last'.op = "ExecuteBlock" /\ last'.status = "OK")
        => ExecHeight(bc) = last'.res.number ]_vars

\* The fee collector the configuration schedules for height h: the entry
\* with the greatest configured height not above h.
ScheduledFeeCollector(h) ==
    LET configured == {k \in DOMAIN AstriaFeeCollectors : k <= h}
    IN  AstriaFeeCollectors[CHOOSE k \in configured : \A j \in configured : j <= k]

\* C36 (as claimed): after any sequence of ExecuteBlock and
\* UpdateCommitmentState calls, the block an ExecuteBlock that returns OK
\* inserts at height h has as its fee recipient the fee collector configured
\* for the greatest height not above h.
C36_FeeRecipientSchedule ==
    [][ (last'.op = "ExecuteBlock" /\ last'.status = "OK")
        => BuiltBlock(bc', last'.res).coinbase
             = ScheduledFeeCollector(BuiltBlock(bc', last'.res).number) ]_vars

(***************************************************************************)
(* SpecLocks: scheduling.  Concurrent ExecuteBlock and                     *)
(* UpdateCommitmentState calls under a fair scheduler: a call that can     *)
(* take a step is not left behind forever (the Go scheduler runs every     *)
(* runnable goroutine), and a call waiting for a mutex that becomes free   *)
(* again and again gets it (sync.Mutex hands the mutex to a waiter that    *)
(* has starved).  Nothing obliges a caller to start a call or to take its  *)
(* response.                                                               *)
(***************************************************************************)
LockExecuteBlockRequests ==
    {ExecuteBlockRequest(prev, 1, <<>>, NoBeaconRoot) :
        prev \in {bc.currentSafeBlock, UnknownHash}}

LockCommitmentStates ==
    {CommitmentState(soft, bc.currentFinalBlock, bc.baseCelestiaHeight) :
        soft \in KnownHashes \cup {UnknownHash}}

\* The steps of ExecuteBlock after the mutex is taken.
ExecSteps(p) ==
    \/ ExecCheckHandshake(p)
    \/ ExecCheckParent(p)
    \/ ExecReadHeight(p)
    \/ ExecStage(p)
    \/ ExecBuild(p)
    \/ ExecInsertBlock(p)
    \/ ExecClear(p)
    \/ ExecConfigure(p)

\* The steps of UpdateCommitmentState after the mutex is taken.
UpdSteps(p) ==
    \/ UpdCheckHandshake(p)
    \/ UpdCheckBase(p)
    \/ UpdLookup(p)
    \/ UpdSetCanonical(p)
    \/ UpdCheckFirm(p)
    \/ UpdRollBack(p)
    \/ UpdSetSafe(p)
    \/ UpdSetFinal(p)

NextLocks ==
    \/ ~CommitStoreFull
          /\ \E p \in Procs : \E req \in LockExecuteBlockRequests : ConcExecuteBlock(p, req)
    \/ \E p \in Procs : ExecLock(p)
    \/ \E p \in Procs : ExecSteps(p)
    \/ \E p \in Procs : \E cs \in LockCommitmentStates : ConcUpdateCommitmentState(p, cs)
    \/ \E p \in Procs : UpdLock(p)
    \/ \E p \in Procs : UpdSteps(p)
    \/ \E p \in Procs : ConcReturn(p)

FairScheduling ==
    \A p \in Procs :
        /\ WF_vars(ExecSteps(p))
        /\ WF_vars(UpdSteps(p))
        /\ SF_vars(ExecLock(p))
        /\ SF_vars(UpdLock(p))

SpecLocks == InitConc /\ [][NextLocks]_vars /\ FairScheduling

\* Caller p has started an ExecuteBlock or an UpdateCommitmentState that has
\* not returned.
LockingCallInProgress(p) ==
    /\ calls[p].op \in {"ExecuteBlock", "UpdateCommitmentState"}
    /\ calls[p].pc # "done"

\* C37: ExecuteBlock takes and releases only the execution mutex and
\* UpdateCommitmentState only the commitment mutex; a mutex is held only by a
\* call of its procedure that is in progress, so both are free whenever no
\* such call is in progress; and under fair scheduling every started
\* ExecuteBlock and UpdateCommitmentState returns.
C37_LocksReleasedAndCallsReturn ==
    /\ [](/\ blockExecutionLock # NoHolder => blockExecutionLock \in ExecInsideLock
          /\ commitmentUpdateLock # NoHolder => commitmentUpdateLock \in UpdInsideLock)
    /\ [][ /\ blockExecutionLock' # blockExecutionLock
               => \E p \in Procs : calls[p].op = "ExecuteBlock"
                                     /\ calls'[p].op = "ExecuteBlock"
                                     /\ calls'[p].pc # calls[p].pc
           /\ commitmentUpdateLock' # commitmentUpdateLock
               => \E p \in Procs : calls[p].op = "UpdateCommitmentState"
                                     /\ calls'[p].op = "UpdateCommitmentState"
                                     /\ calls'[p].pc # calls[p].pc ]_vars
    /\ \A p \in Procs : LockingCallInProgress(p) ~> (calls[p].pc = "done")

\* C37 witness: a call that failed inside the mutex has returned, and another
\* call of the same procedure has taken the mutex after it.
C37_Witness ==
    \E p, q \in Procs :
        /\ At(p, "ExecuteBlock", "done")
        /\ calls[p].status = "FailedPrecondition"
        /\ q \in ExecInsideLock
        /\ blockExecutionLock = q

(***************************************************************************)
(* SpecRecv: the mock stream of the tests.  A MockBidirectionalStreaming   *)
(* is constructed over every request stream of up to MaxStream requests;   *)
(* Recv and Send are called in any order.  An index out of range panics,   *)
(* which ends the run.                                                     *)
(***************************************************************************)
MaxStream == 3

\* The requests and the response the tests send, by name.
StreamRequests == {<<"req1">>, <<"req2">>}

StreamResponse == <<"res">>

\* A uint64 as four 16-bit limbs, the most significant first.
Limb == 2 ^ 16

\* uint64(x) of an int x: the two's complement of a negative x.
Uint64(x) ==
    LET sign == IF x < 0 THEN Limb - 1 ELSE 0
    IN  <<sign, sign, (x \div Limb) % Limb, x % Limb>>

\* a > b on uint64.
Uint64Greater(a, b) ==
    \E i \in 1..4 : a[i] > b[i] /\ \A j \in 1..(i - 1) : a[j] = b[j]

RecvFrame ==
    UNCHANGED <<service, builtSinceUpdate, lastBuilt, calls, blockExecutionLock,
                commitmentUpdateLock, previous>>

\* ms.requestCounter > uint64(len(ms.requestStream)-1)
RecvAtEnd(stream, requestCounter) ==
    Uint64Greater(Uint64(requestCounter), Uint64(Len(stream) - 1))

Recv ==
    /\ IF RecvAtEnd(ms.requestStream, ms.requestCounter)
       THEN \* end the stream after all the packets have been sent
            /\ last' = [op |-> "Recv", req |-> NoRequest, status |-> "EOF",
                        res |-> NoResponse]
            /\ UNCHANGED ms
       ELSE IF ms.requestCounter + 1 \in DOMAIN ms.requestStream
       THEN /\ last' = [op |-> "Recv", req |-> NoRequest, status |-> "OK",
                        res |-> ms.requestStream[ms.requestCounter + 1]]
            /\ ms' = [ms EXCEPT !.requestCounter = ms.requestCounter + 1]
       ELSE \* index out of range
            /\ last' = [op |-> "Recv", req |-> NoRequest, status |-> "panic",
                        res |-> NoResponse]
            /\ UNCHANGED ms
    /\ RecvFrame

Send(res) ==
    /\ Len(ms.accumulatedResponses) < MaxStream
    /\ ms' = [ms EXCEPT !.accumulatedResponses = Append(ms.accumulatedResponses, res)]
    /\ last' = [op |-> "Send", req |-> res, status |-> "OK", res |-> NoResponse]
    /\ RecvFrame

InitRecv ==
    /\ bc = GeneratedChain(InitBlocks)
    /\ astriaOrdered = <<>>
    /\ nextFeeRecipient = InitialFeeRecipient
    /\ auctioneerAddress = NoAuctioneer
    /\ genesisInfoCalled = FALSE
    /\ getCommitmentStateCalled = FALSE
    /\ synced = FALSE
    /\ last = NoCall
    /\ builtSinceUpdate = {}
    /\ lastBuilt = NoBuilt
    /\ calls = [p \in Procs |-> NotInFlight]
    /\ blockExecutionLock = NoHolder
    /\ commitmentUpdateLock = NoHolder
    /\ previous = NoCall
    /\ ms \in {MockBidirectionalStreaming(stream) :
                  stream \in SeqsUpTo(StreamRequests, MaxStream)}

NextRecv ==
    \/ Idle /\ Recv
    \/ Idle /\ Send(StreamResponse)
    \/ last.status # "panic" /\ Return

SpecRecv == InitRecv /\ [][NextRecv]_vars

\* C38 (as claimed): Recv replays the request stream: over a stream of n >= 0
\* requests the k-th call returns the k-th request for k <= n, and every
\* later call returns io.EOF and leaves requestCounter unchanged; in
\* particular Recv on an empty stream returns io.EOF.
C38_RecvReplaysStream ==
    [][ last'.op = "Recv"
        => IF ms.requestCounter < Len(ms.requestStream)
           THEN /\ last'.status = "OK"
                /\ last'.res = ms.requestStream[ms.requestCounter + 1]
                /\ ms'.requestCounter = ms.requestCounter + 1
                /\ ms'.requestCounter <= Len(ms.requestStream)
           ELSE /\ last'.status = "EOF"
                /\ ms' = ms ]_vars

\* C38 for streams that are not empty.
RecvReplaysNonEmptyStream ==
    [][ (last'.op = "Recv" /\ ms.requestStream # <<>>)
        => IF ms.requestCounter < Len(ms.requestStream)
           THEN /\ last'.status = "OK"
                /\ last'.res = ms.requestStream[ms.requestCounter + 1]
                /\ ms'.requestCounter = ms.requestCounter + 1
           ELSE /\ last'.status = "EOF"
                /\ ms' = ms ]_vars

====
